---- MODULE Spec2Model ----
(***************************************************************************)
(* A model of the ASCII-art pipeline of src/src/engine.ts (tone adjuster,  *)
(* auto-optimizer, intensity engine, ditherers, character LUT, compositor  *)
(* and exporters).                                                         *)
(*                                                                         *)
(* Arithmetic.  The code computes in IEEE doubles and stores fields in     *)
(* Float32Array.  The model computes in exact rational arithmetic: a       *)
(* field is a sequence of arbitrary-precision integers over one common     *)
(* arbitrary-precision denominator, so an equality of the model is an      *)
(* equality of real numbers; floating-point rounding is not modelled.      *)
(* TLC's integers are 32 bits wide, hence the small multi-limb library     *)
(* that opens the module.                                                  *)
(***************************************************************************)
EXTENDS Integers, Sequences, FiniteSets, TLC

VARIABLES
  dither,   \* a call of applyDithering in progress
  lut,      \* a call of buildCharLUT
  tone,     \* a call of createAdjustedCanvas
  render,   \* a call of renderAsciiLayer / renderAsciiText
  comp,     \* a call of compositeAll
  auto,     \* a call of autoOptimizeSettings
  cache,    \* densityCache and the render calls made on it
  app       \* the layers of the control surface

vars == <<dither, lut, tone, render, comp, auto, cache, app>>

\* the value of a component no call of which is in progress
Idle == [pass |-> 0]

\* F(v), with v computed once
With(v, F(_)) == CHOOSE r \in {F(x) : x \in {v}} : TRUE

\* a buffer whose elements are computed once, when it is written
Stored(s) == s \o << >>

-----------------------------------------------------------------------------
(* Arbitrary-precision naturals: little-endian limbs, no leading zero limb. *)

Base == 100 * 100

Abs(k) == IF k < 0 THEN -k ELSE k

RECURSIVE NatNorm(_)
NatNorm(a) == IF a = <<>> THEN <<>>
              ELSE IF a[Len(a)] = 0 THEN NatNorm(SubSeq(a, 1, Len(a) - 1))
              ELSE a

RECURSIVE NatFromInt(_)
NatFromInt(k) == IF k = 0 THEN <<>> ELSE <<k % Base>> \o NatFromInt(k \div Base)

RECURSIVE NatAddC(_, _, _)
NatAddC(a, b, c) ==
  IF a = <<>> /\ b = <<>> THEN (IF c = 0 THEN <<>> ELSE <<c>>)
  ELSE LET s == (IF a = <<>> THEN 0 ELSE Head(a))
                + (IF b = <<>> THEN 0 ELSE Head(b)) + c
       IN  <<s % Base>> \o NatAddC(IF a = <<>> THEN <<>> ELSE Tail(a),
                                    IF b = <<>> THEN <<>> ELSE Tail(b),
                                    s \div Base)

NatAdd(a, b) == NatAddC(a, b, 0)

\* a - b for a >= b
RECURSIVE NatSubC(_, _, _)
NatSubC(a, b, c) ==
  IF a = <<>> THEN <<>>
  ELSE LET s == Head(a) - (IF b = <<>> THEN 0 ELSE Head(b)) - c
       IN  <<s % Base>> \o NatSubC(Tail(a), IF b = <<>> THEN <<>> ELSE Tail(b),
                                    IF s < 0 THEN 1 ELSE 0)

NatSub(a, b) == NatNorm(NatSubC(a, b, 0))

RECURSIVE NatCmpAt(_, _, _)
NatCmpAt(a, b, i) == IF i = 0 THEN 0
                     ELSE IF a[i] < b[i] THEN -1
                     ELSE IF a[i] > b[i] THEN 1
                     ELSE NatCmpAt(a, b, i - 1)

\* -1, 0 or 1 as a < b, a = b, a > b
NatCmp(a, b) == IF Len(a) < Len(b) THEN -1
                ELSE IF Len(a) > Len(b) THEN 1
                ELSE NatCmpAt(a, b, Len(a))

\* a * k for a machine integer 0 <= k <= 200000
RECURSIVE NatMulC(_, _, _)
NatMulC(a, k, c) ==
  IF a = <<>> THEN NatFromInt(c)
  ELSE LET s == Head(a) * k + c
       IN  <<s % Base>> \o NatMulC(Tail(a), k, s \div Base)

NatMulSmall(a, k) == IF k = 0 \/ a = <<>> THEN <<>> ELSE NatMulC(a, k, 0)

RECURSIVE NatMul(_, _)
NatMul(a, b) ==
  IF a = <<>> \/ b = <<>> THEN <<>>
  ELSE LET r == NatMul(a, Tail(b))
       IN  NatAdd(NatMulSmall(a, Head(b)), IF r = <<>> THEN <<>> ELSE <<0>> \o r)

\* a * k for a machine integer k >= 0
NatTimes(a, k) == IF k <= 200000 THEN NatMulSmall(a, k) ELSE NatMul(a, NatFromInt(k))

\* floor(m / b) for b > 0 when the quotient is a machine integer
RECURSIVE NatQuotUp(_, _, _)
NatQuotUp(m, b, hi) == IF NatCmp(NatTimes(b, hi), m) > 0 THEN hi
                       ELSE NatQuotUp(m, b, 2 * hi)

RECURSIVE NatQuotBis(_, _, _, _)
NatQuotBis(m, b, lo, hi) ==
  IF hi - lo <= 1 THEN lo
  ELSE LET mid == (lo + hi) \div 2
       IN  IF NatCmp(NatTimes(b, mid), m) > 0 THEN NatQuotBis(m, b, lo, mid)
           ELSE NatQuotBis(m, b, mid, hi)

NatQuot(m, b) == NatQuotBis(m, b, 0, NatQuotUp(m, b, 1))

-----------------------------------------------------------------------------
(* Arbitrary-precision integers: sign s (1 or -1) and magnitude m; zero has *)
(* sign 1.                                                                  *)

IZero == [s |-> 1, m |-> <<>>]

IFromInt(k) == [s |-> IF k < 0 THEN -1 ELSE 1, m |-> NatFromInt(Abs(k))]

IFromNat(a) == [s |-> 1, m |-> a]

INeg(a) == IF a.m = <<>> THEN a ELSE [s |-> -a.s, m |-> a.m]

IAdd(a, b) ==
  IF a.s = b.s THEN [s |-> a.s, m |-> NatAdd(a.m, b.m)]
  ELSE LET c == NatCmp(a.m, b.m)
       IN  IF c = 0 THEN IZero
           ELSE IF c > 0 THEN [s |-> a.s, m |-> NatSub(a.m, b.m)]
           ELSE [s |-> b.s, m |-> NatSub(b.m, a.m)]

ISub(a, b) == IAdd(a, INeg(b))

IMulInt(a, k) ==
  IF k = 0 \/ a.m = <<>> THEN IZero
  ELSE [s |-> IF k < 0 THEN -a.s ELSE a.s, m |-> NatMulSmall(a.m, Abs(k))]

IMulNat(a, b) ==
  IF b = <<>> \/ a.m = <<>> THEN IZero ELSE [s |-> a.s, m |-> NatMul(a.m, b)]

IMul(a, b) ==
  IF a.m = <<>> \/ b.m = <<>> THEN IZero
  ELSE [s |-> a.s * b.s, m |-> NatMul(a.m, b.m)]

ICmp(a, b) ==
  IF a.s # b.s THEN (IF a.s < b.s THEN -1 ELSE 1)
  ELSE IF a.s = 1 THEN NatCmp(a.m, b.m) ELSE NatCmp(b.m, a.m)

IMax(a, b) == IF ICmp(a, b) >= 0 THEN a ELSE b

IMin(a, b) == IF ICmp(a, b) <= 0 THEN a ELSE b

IAbs(a) == [s |-> 1, m |-> a.m]

\* floor(a / b) for a natural b > 0, as a machine integer
IFloorDiv(a, b) ==
  IF a.s = 1 THEN NatQuot(a.m, b)
  ELSE -NatQuot(NatSub(a.m, <<1>>), b) - 1

\* JavaScript's Math.round(a / b): the nearest integer, halves towards +infinity
RoundQuot(a, b) == IFloorDiv(IAdd(IMulInt(a, 2), IFromNat(b)), NatMulSmall(b, 2))

RECURSIVE ISum(_)
ISum(s) == IF s = <<>> THEN IZero ELSE IAdd(Head(s), ISum(Tail(s)))

-----------------------------------------------------------------------------
(* Scalar fields (Float32Array buffers): cell i (1-based, row-major) has    *)
(* the value n[i] / d.                                                      *)

FieldOfInts(s, den) == [d |-> NatFromInt(den), n |-> [i \in 1..Len(s) |-> IFromInt(s[i])]]

\* the same field over the denominator d * k
FieldTimesDen(f, k) == [d |-> NatMulSmall(f.d, k),
                        n |-> [i \in 1..Len(f.n) |-> IMulInt(f.n[i], k)]]

\* equality of the values of two fields
FieldEq(f, g) ==
  /\ Len(f.n) = Len(g.n)
  /\ \A i \in 1..Len(f.n) : IMulNat(f.n[i], g.d) = IMulNat(g.n[i], f.d)


-----------------------------------------------------------------------------
(* Dithering (engine.ts 336-456).  Inside a dither the working buffer is    *)
(* the record [d, q, n]: values n[i] / d with d = q * (levels - 1), so that *)
(* every level k * step = k * 255 / (levels - 1) is the integer k * 255 * q *)
(* over d.                                                                  *)

\* Math.round(v / step) for v = a / d and step = 255 / (levels - 1)
QuantLevel(a, d, levels) ==
  IFloorDiv(IAdd(IMulInt(a, 2 * (levels - 1)), IFromNat(NatMulSmall(d, 255))),
            NatMulSmall(d, 510))

\* k * step over the denominator q * (levels - 1)
LevelNum(k, q) == IMul(IFromNat(q), IFromInt(255 * k))

\* new Float32Array(intensity): the copy the error-diffusion loops work in
BufferCopy(intensity, levels) ==
  [d |-> NatMulSmall(intensity.d, levels - 1), q |-> intensity.d,
   n |-> [i \in 1..Len(intensity.n) |-> IMulInt(intensity.n[i], levels - 1)]]

\* new Float32Array(intensity.length): the zero buffer ditherNone and
\* ditherOrdered write into
BufferZero(intensity, levels) ==
  [d |-> NatMulSmall(intensity.d, levels - 1), q |-> intensity.d,
   n |-> [i \in 1..Len(intensity.n) |-> IZero]]

\* the buffer over the denominator d * k
BufferTimesDen(S, k) ==
  [d |-> NatMulSmall(S.d, k), q |-> NatMulSmall(S.q, k),
   n |-> [j \in 1..Len(S.n) |-> IMulInt(S.n[j], k)]]

\* a diffusion step without the bounds tests: the share lands wherever index j
\* falls in the buffer, and is dropped only past its end
BumpUnguarded(n, ok, j, e, wgt) ==
  IF j + 1 \in 1..Len(n) THEN [n EXCEPT ![j + 1] = IAdd(@, IMulInt(e, wgt))] ELSE n

\* a diffusion step that hands every neighbour the same share, whatever its
\* weight
BumpUnitWeight(n, ok, j, e, wgt) ==
  IF ok THEN [n EXCEPT ![j + 1] = IAdd(@, e)] ELSE n

\* if (ok) result[j] += e * wgt   (j is 0-based, e over the buffer's denominator)
Bump(n, ok, j, e, wgt) ==
  IF ok THEN [n EXCEPT ![j + 1] = IAdd(@, IMulInt(e, wgt))] ELSE n

\* a quantizer that divides by 255 / levels and multiplies by 255 / (levels - 1)
NoneCellTwoSteps(S, intensity, levels, i) ==
  LET k == IFloorDiv(IAdd(IMulInt(intensity.n[i + 1], 2 * levels),
                          IFromNat(NatMulSmall(intensity.d, 255))),
                     NatMulSmall(intensity.d, 510))
  IN  [d |-> S.d, q |-> S.q, n |-> [S.n EXCEPT ![i + 1] = LevelNum(k, S.q)],
       e |-> IZero]

\* one iteration of ditherNone's loop, cell i (0-based)
NoneCell(S, intensity, levels, i) ==
  LET k == QuantLevel(intensity.n[i + 1], intensity.d, levels)
  IN  [d |-> S.d, q |-> S.q, n |-> [S.n EXCEPT ![i + 1] = LevelNum(k, S.q)],
       e |-> IZero]

BAYER_4 == << <<0, 8, 2, 10>>, <<12, 4, 14, 6>>, <<3, 11, 1, 9>>, <<15, 7, 13, 5>> >>

\* one iteration of ditherOrdered's loop: round((v + (B/16 - 0.5) * step) / step)
\*   = floor(v / step + B / 16)
OrderedCell(S, intensity, w, levels, i) ==
  LET x == i % w
      y == i \div w
      b == BAYER_4[(y % 4) + 1][(x % 4) + 1]
      k == IFloorDiv(IAdd(IMulInt(intensity.n[i + 1], 16 * (levels - 1)),
                          IFromNat(NatMulSmall(intensity.d, 255 * b))),
                     NatMulSmall(intensity.d, 16 * 255))
  IN  [d |-> S.d, q |-> S.q, n |-> [S.n EXCEPT ![i + 1] = LevelNum(k, S.q)],
       e |-> IZero]

\* one iteration of ditherFloydSteinberg's loops; e is old - nw over the new
\* denominator 16 * d
FSCell(S, w, h, levels, i) ==
  LET x   == i % w
      y   == i \div w
      old == S.n[i + 1]
      nw  == LevelNum(QuantLevel(old, S.d, levels), S.q)
      err == ISub(old, nw)
      T   == BufferTimesDen([S EXCEPT !.n[i + 1] = nw], 16)
      r1  == Bump(T.n, x + 1 < w, i + 1, err, 7)
      r2  == Bump(r1, y + 1 < h /\ x > 0, i + w - 1, err, 3)
      r3  == Bump(r2, y + 1 < h, i + w, err, 5)
      r4  == Bump(r3, y + 1 < h /\ x + 1 < w, i + w + 1, err, 1)
  IN  [d |-> T.d, q |-> T.q, n |-> r4, e |-> IMulInt(err, 16)]

\* one iteration of ditherAtkinson's loops; the code's err is (old - nw) / 8
AtkinsonCell(S, w, h, levels, i) ==
  LET x   == i % w
      y   == i \div w
      old == S.n[i + 1]
      nw  == LevelNum(QuantLevel(old, S.d, levels), S.q)
      err == ISub(old, nw)
      T   == BufferTimesDen([S EXCEPT !.n[i + 1] = nw], 8)
      r1  == Bump(T.n, x + 1 < w, i + 1, err, 1)
      r2  == Bump(r1, x + 2 < w, i + 2, err, 1)
      r3  == Bump(r2, y + 1 < h /\ x > 0, i + w - 1, err, 1)
      r4  == Bump(r3, y + 1 < h, i + w, err, 1)
      r5  == Bump(r4, y + 1 < h /\ x + 1 < w, i + w + 1, err, 1)
      r6  == Bump(r5, y + 2 < h, i + 2 * w, err, 1)
  IN  [d |-> T.d, q |-> T.q, n |-> r6, e |-> IMulInt(err, 8)]

\* one iteration of ditherStucki's loops
StuckiCell(S, w, h, levels, i) ==
  LET x   == i % w
      y   == i \div w
      old == S.n[i + 1]
      nw  == LevelNum(QuantLevel(old, S.d, levels), S.q)
      err == ISub(old, nw)
      T   == BufferTimesDen([S EXCEPT !.n[i + 1] = nw], 42)
      a1  == Bump(T.n, x + 1 < w, i + 1, err, 8)
      a2  == Bump(a1, x + 2 < w, i + 2, err, 4)
      b1  == Bump(a2, y + 1 < h /\ x > 1, i + w - 2, err, 2)
      b2  == Bump(b1, y + 1 < h /\ x > 0, i + w - 1, err, 4)
      b3  == Bump(b2, y + 1 < h, i + w, err, 8)
      b4  == Bump(b3, y + 1 < h /\ x + 1 < w, i + w + 1, err, 4)
      b5  == Bump(b4, y + 1 < h /\ x + 2 < w, i + w + 2, err, 2)
      c1  == Bump(b5, y + 2 < h /\ x > 1, i + 2 * w - 2, err, 1)
      c2  == Bump(c1, y + 2 < h /\ x > 0, i + 2 * w - 1, err, 2)
      c3  == Bump(c2, y + 2 < h, i + 2 * w, err, 4)
      c4  == Bump(c3, y + 2 < h /\ x + 1 < w, i + 2 * w + 1, err, 2)
      c5  == Bump(c4, y + 2 < h /\ x + 2 < w, i + 2 * w + 2, err, 1)
  IN  [d |-> T.d, q |-> T.q, n |-> c5, e |-> IMulInt(err, 42)]

DitherModes == {"none", "floyd-steinberg", "atkinson", "ordered", "stucki"}

\* the buffer a dither of the given mode starts from
DitherStart(mode, intensity, levels) ==
  IF mode \in {"floyd-steinberg", "atkinson", "stucki"}
  THEN BufferCopy(intensity, levels) ELSE BufferZero(intensity, levels)

\* the loop body of the dither of the given mode at cell i (0-based)
DitherCell(mode, S, intensity, w, h, levels, i) ==
  CASE mode = "floyd-steinberg" -> FSCell(S, w, h, levels, i)
    [] mode = "atkinson"        -> AtkinsonCell(S, w, h, levels, i)
    [] mode = "stucki"          -> StuckiCell(S, w, h, levels, i)
    [] mode = "ordered"         -> OrderedCell(S, intensity, w, levels, i)
    [] OTHER                    -> NoneCell(S, intensity, levels, i)

\* the raster scan: for y in 0..h-1, for x in 0..w-1
RECURSIVE DitherScan(_, _, _, _, _, _, _)
DitherScan(mode, S, intensity, w, h, levels, i) ==
  IF i >= w * h THEN [d |-> S.d, n |-> S.n]
  ELSE DitherScan(mode, DitherCell(mode, S, intensity, w, h, levels, i),
                  intensity, w, h, levels, i + 1)

ditherNone(intensity, w, h, levels) ==
  DitherScan("none", BufferZero(intensity, levels), intensity, w, h, levels, 0)

ditherFloydSteinberg(intensity, w, h, levels) ==
  DitherScan("floyd-steinberg", BufferCopy(intensity, levels), intensity, w, h, levels, 0)

ditherAtkinson(intensity, w, h, levels) ==
  DitherScan("atkinson", BufferCopy(intensity, levels), intensity, w, h, levels, 0)

ditherStucki(intensity, w, h, levels) ==
  DitherScan("stucki", BufferCopy(intensity, levels), intensity, w, h, levels, 0)

ditherOrdered(intensity, w, h, levels) ==
  DitherScan("ordered", BufferZero(intensity, levels), intensity, w, h, levels, 0)

Max(a, b) == IF a >= b THEN a ELSE b

Min(a, b) == IF a <= b THEN a ELSE b

applyDithering(intensity, w, h, mode, rampLength) ==
  LET levels == Max(2, rampLength)
      which  == IF mode \in DitherModes THEN mode ELSE "none"
  IN  DitherScan(which, DitherStart(which, intensity, levels), intensity, w, h, levels, 0)

-----------------------------------------------------------------------------
(* The ditherers as a machine: one DitherStep per iteration of the loop     *)
(* over the cells, DitherAgain calls the same dither on its own result.     *)
(* errs is history: the quantization error old - nw of each processed cell, *)
(* kept over the buffer's current denominator.                              *)

MaxFieldW == 5

MaxFieldH == 3

MaxPasses == 2

DitherLevelSet == {2, 10}

\* input samples in half units, <<first sample, stride>>: a sweep through
\* [0, 255], the constant 127.5 (a rounding tie for 2 levels), a sweep from 42.5
InputSeeds == {<<0, 97>>, <<255, 0>>, <<85, 61>>}

InputField(w, h, seed) ==
  FieldOfInts([i \in 1..(w * h) |-> (seed[1] + seed[2] * (i - 1)) % 511], 2)

\* the factor by which one cell of the mode multiplies the buffer's denominator
DenFactor(mode) == CASE mode = "floyd-steinberg" -> 16
                     [] mode = "atkinson"        -> 8
                     [] mode = "stucki"          -> 42
                     [] OTHER                    -> 1

DitherInit ==
  /\ lut = Idle /\ tone = Idle /\ render = Idle /\ comp = Idle /\ auto = Idle
  /\ cache = Idle /\ app = Idle
  /\ \E mode \in DitherModes, w \in 1..MaxFieldW, h \in 1..MaxFieldH,
        levels \in DitherLevelSet, seed \in InputSeeds :
       dither = [mode |-> mode, w |-> w, h |-> h, levels |-> levels,
                 orig |-> InputField(w, h, seed),
                 input |-> InputField(w, h, seed),
                 S |-> DitherStart(mode, InputField(w, h, seed), levels),
                 pos |-> 0, errs |-> <<>>, pass |-> 1]

DitherStep ==
  /\ dither.pass >= 1
  /\ dither.pos < dither.w * dither.h
  /\ LET c == DitherCell(dither.mode, dither.S, dither.input,
                         dither.w, dither.h, dither.levels, dither.pos)
         k == DenFactor(dither.mode)
     IN  dither' = [dither EXCEPT
                      !.S = [d |-> c.d, q |-> c.q, n |-> c.n],
                      !.errs = [j \in 1..Len(@) |-> IMulInt(@[j], k)] \o <<c.e>>,
                      !.pos = @ + 1]
  /\ UNCHANGED <<lut, tone, render, comp, auto, cache, app>>

DitherAgain ==
  /\ dither.pass >= 1
  /\ dither.pass < MaxPasses
  /\ dither.pos = dither.w * dither.h
  /\ LET out == [d |-> dither.S.d, n |-> dither.S.n]
     IN  dither' = [dither EXCEPT
                      !.input = out,
                      !.S = DitherStart(dither.mode, out, dither.levels),
                      !.pos = 0, !.errs = <<>>, !.pass = @ + 1]
  /\ UNCHANGED <<lut, tone, render, comp, auto, cache, app>>

DitherNext == DitherStep \/ DitherAgain

SpecDither == DitherInit /\ [][DitherNext]_vars

DitherDone == dither.pass >= 1 /\ dither.pos = dither.w * dither.h

\* The kernels as section 4.5 of the specification states them:
\* <<dx, dy, weight>> and the divisor the weights are taken over.
KernelOf(mode) ==
  CASE mode = "floyd-steinberg" -> << <<1, 0, 7>>, <<-1, 1, 3>>, <<0, 1, 5>>, <<1, 1, 1>> >>
    [] mode = "atkinson" -> << <<1, 0, 1>>, <<2, 0, 1>>, <<-1, 1, 1>>, <<0, 1, 1>>,
                               <<1, 1, 1>>, <<0, 2, 1>> >>
    [] mode = "stucki" -> << <<1, 0, 8>>, <<2, 0, 4>>,
                             <<-2, 1, 2>>, <<-1, 1, 4>>, <<0, 1, 8>>, <<1, 1, 4>>, <<2, 1, 2>>,
                             <<-2, 2, 1>>, <<-1, 2, 2>>, <<0, 2, 4>>, <<1, 2, 2>>, <<2, 2, 1>> >>
    [] OTHER -> << >>

KernelDivisor(mode) == CASE mode = "floyd-steinberg" -> 16
                         [] mode = "atkinson"        -> 8
                         [] mode = "stucki"          -> 42
                         [] OTHER                    -> 1

\* the weight of the kernel entries of cell i (0-based) that fall outside the field
RECURSIVE OutsideWeight(_, _, _, _)
OutsideWeight(kernel, w, h, i) ==
  IF kernel = << >> THEN 0
  ELSE LET t  == Head(kernel)
           nx == (i % w) + t[1]
           ny == (i \div w) + t[2]
       IN  (IF nx < 0 \/ nx >= w \/ ny >= h THEN t[3] ELSE 0)
           + OutsideWeight(Tail(kernel), w, h, i)

InteriorCell(mode, w, h, i) == OutsideWeight(KernelOf(mode), w, h, i) = 0

\* the error shares addressed to neighbours outside the field, summed over the
\* processed cells, over the denominator S.d * KernelDivisor(mode)
EdgeLoss ==
  ISum([j \in 1..Len(dither.errs) |->
          IMulInt(dither.errs[j],
                  OutsideWeight(KernelOf(dither.mode), dither.w, dither.h, j - 1))])

\* two eighths of every cell's error, over the denominator S.d * 8
AtkinsonDiscard == IMulInt(ISum(dither.errs), 2)

\* sum(output) = sum(input) - loss / (S.d * KernelDivisor)
SumConserved(loss) ==
  IAdd(IMulNat(IMulInt(ISum(dither.S.n), KernelDivisor(dither.mode)), dither.input.d),
       IMulNat(loss, dither.input.d))
    = IMulNat(IMulInt(ISum(dither.input.n), KernelDivisor(dither.mode)), dither.S.d)

ErrorDiffusion == {"floyd-steinberg", "atkinson", "stucki"}

\* C4 as stated: for floyd-steinberg, atkinson and stucki the sum of the
\* quantized output equals the sum of the input minus the error shares
\* addressed to neighbours outside the field; nothing else is lost.
C4_SumConservedAllKernels ==
  (DitherDone /\ dither.mode \in ErrorDiffusion) => SumConserved(EdgeLoss)

\* C4 amended: for floyd-steinberg and stucki the sum of the quantized output
\* equals the sum of the input minus the error shares addressed to neighbours
\* outside the field; for atkinson it equals the sum of the input minus those
\* edge shares minus 2/8 of every cell's quantization error.
C4_SumConservedUpToAtkinsonDiscard ==
  (DitherDone /\ dither.mode \in ErrorDiffusion) =>
     SumConserved(IF dither.mode = "atkinson"
                  THEN IAdd(EdgeLoss, AtkinsonDiscard) ELSE EdgeLoss)

\* a finished stucki run with a cell whose twelve kernel neighbours all lie
\* inside the field and whose quantization error is not zero, and with a
\* non-zero edge loss elsewhere
C4_Witness ==
  /\ DitherDone /\ dither.mode = "stucki"
  /\ \E j \in 1..Len(dither.errs) :
        /\ InteriorCell("stucki", dither.w, dither.h, j - 1)
        /\ dither.errs[j] # IZero
  /\ EdgeLoss # IZero

\* C9: ditherNone applied to a result of ditherNone returns that result.
C9_DitherNoneIdempotent ==
  (DitherDone /\ dither.mode = "none" /\ dither.pass >= 2) =>
     FieldEq([d |-> dither.S.d, n |-> dither.S.n], dither.input)

\* a second ditherNone pass has finished on the result of a first pass that
\* did change its input (the original field was not already quantized)
C9_Witness ==
  /\ DitherDone /\ dither.mode = "none" /\ dither.pass = 2
  /\ ~FieldEq(dither.orig, dither.input)
  /\ dither.w * dither.h > 1

-----------------------------------------------------------------------------
(* The character LUT (buildCharLUT).  A glyph is a one-character string.    *)
(* What the font rasterizer paints is the environment's: a raster gives,    *)
(* per glyph, the number of cell pixels with non-zero alpha.                *)

\* [...new Set(ramp)]: the glyphs of the ramp, first occurrences, in ramp order
RECURSIVE UniqueChars(_)
UniqueChars(ramp) ==
  IF ramp = << >> THEN << >>
  ELSE LET init == UniqueChars(SubSeq(ramp, 1, Len(ramp) - 1))
           ch   == ramp[Len(ramp)]
       IN  IF \E j \in 1..Len(init) : init[j] = ch THEN init ELSE Append(init, ch)

\* measureCharDensities: filled / totalPixels per glyph, the space pinned to 0;
\* the result is the map of filled counts, the densities' numerators over
\* totalPixels = cellW * cellH
measureCharDensities(chars, raster) ==
  [ch \in {chars[j] : j \in 1..Len(chars)} |-> IF ch = " " THEN 0 ELSE raster[ch]]

\* densities.get(ch) || 0
DensityOf(densities, ch) == IF ch \in DOMAIN densities THEN densities[ch] ELSE 0

\* the ramp left in ramp order
Unsorted(chars, densities) == chars

\* uniqueChars.sort((a, b) => density(a) - density(b)): a stable sort
RECURSIVE SortByDensity(_, _)
SortByDensity(chars, densities) ==
  IF chars = << >> THEN << >>
  ELSE LET init == SortByDensity(SubSeq(chars, 1, Len(chars) - 1), densities)
           ch   == chars[Len(chars)]
           keep == {j \in 1..Len(init) :
                      DensityOf(densities, init[j]) <= DensityOf(densities, ch)}
           k    == Cardinality(keep)
       IN  SubSeq(init, 1, k) \o <<ch>> \o SubSeq(init, k + 1, Len(init))

\* |pairs[j].density - targetDensity| * 255 * totalPixels, where
\* targetDensity = minD + (i / 255) * range
DistNum(f, minD, rangeNum, i) == Abs(255 * f - (255 * minD + i * rangeNum))

\* a scan that takes the pairs in turn, whatever their densities
BestByPosition(fs, minD, rangeNum, i, j, best) == (i % Len(fs)) + 1

\* the inner scan: the index of the first pair nearest to the target
RECURSIVE BestMatch(_, _, _, _, _, _)
BestMatch(fs, minD, rangeNum, i, j, best) ==
  IF j > Len(fs) THEN best
  ELSE BestMatch(fs, minD, rangeNum, i, j + 1,
                 IF DistNum(fs[j], minD, rangeNum, i) < DistNum(fs[best], minD, rangeNum, i)
                 THEN j ELSE best)

\* buildCharLUT(ramp, fontFamily, fontSize): the 256 glyphs, entry i at i + 1.
\* range = maxD - minD || 1, and 1 is totalPixels / totalPixels.
LUTFromDensities(ramp, densities, totalPixels) ==
  LET sorted    == SortByDensity(UniqueChars(ramp), densities)
      fs        == [j \in 1..Len(sorted) |-> DensityOf(densities, sorted[j])]
      minD      == fs[1]
      maxD      == fs[Len(fs)]
      rangeNum  == IF maxD - minD # 0 THEN maxD - minD ELSE totalPixels
  IN  Stored([i1 \in 1..256 |-> sorted[BestMatch(fs, minD, rangeNum, i1 - 1, 2, 1)]])

\* charDensityPairs[0].density on an empty array: a ramp without a glyph
\* makes buildCharLUT throw TypeError before the table is built
LUTThrows(ramp) == UniqueChars(ramp) = << >>

\* the table for a font whose measurement is not in densityCache
buildCharLUT(ramp, raster, totalPixels) ==
  LUTFromDensities(ramp, measureCharDensities(ramp, raster), totalPixels)

MaxRampLen == 3

Glyphs == {" ", "@", "#", "."}

RECURSIVE SeqsUpTo(_, _)
SeqsUpTo(S, n) ==
  IF n = 0 THEN {<< >>}
  ELSE LET shorter == SeqsUpTo(S, n - 1)
       IN  shorter \cup {Append(r, x) : r \in {q \in shorter : Len(q) = n - 1}, x \in S}

\* the ramps of the data model: non-empty
Ramps == SeqsUpTo(Glyphs, MaxRampLen) \ {<< >>}

\* const cellW = Math.ceil(ctx.measureText('M').width), cellH = Math.ceil(fontSize * 1.2):
\* a cell of 2 x 3 pixels
CellPixels == 2 * 3

Raster(at, hash, dot) == [ch \in Glyphs |-> CASE ch = "@" -> at [] ch = "#" -> hash
                                               [] ch = "." -> dot [] OTHER -> 0]

\* what fonts paint into the cell: the filled pixels of "@", "#" and "."
\* (three densities; 0, 2/6, 3/6 with a target exactly between two glyphs;
\* all glyphs alike; a font that paints nothing)
Rasters == {Raster(5, 3, 1), Raster(3, 2, 0), Raster(4, 4, 4), Raster(0, 0, 0)}

LUTInit ==
  /\ dither = Idle /\ tone = Idle /\ render = Idle /\ comp = Idle /\ auto = Idle
  /\ cache = Idle /\ app = Idle
  /\ \E ramp \in Ramps \cup {<< >>}, raster \in Rasters :
       lut = [pass |-> 1, ramp |-> ramp, raster |-> raster,
              totalPixels |-> CellPixels, table |-> << >>, raised |-> FALSE]

LUTBuild ==
  /\ lut.pass = 1
  /\ lut' = [lut EXCEPT !.pass = 2,
                        !.raised = LUTThrows(lut.ramp),
                        !.table = IF LUTThrows(lut.ramp) THEN << >>
                                  ELSE buildCharLUT(lut.ramp, lut.raster,
                                                    lut.totalPixels)]
  /\ UNCHANGED <<dither, tone, render, comp, auto, cache, app>>

LUTNext == LUTBuild

SpecLUT == LUTInit /\ [][LUTNext]_vars

\* the call has returned a table
LUTBuilt == lut.pass = 2 /\ ~lut.raised

\* the measured density of a glyph, as the filled count over totalPixels
MeasuredDensity(ch) == IF ch = " " THEN 0 ELSE lut.raster[ch]

\* C2: the table built by buildCharLUT is monotonic: for all intensities
\* a < b in 0..255 the measured density of LUT[a] is at most that of LUT[b].
C2_LUTMonotonic ==
  LUTBuilt =>
    \A density \in {[i \in 0..255 |-> MeasuredDensity(lut.table[i + 1])]} :
       \A a \in 0..255 : \A b \in (a + 1)..255 : density[a] <= density[b]

\* a table has been built from a ramp not given in density order whose three
\* glyphs have three different densities, and all three occur in the table
C2_Witness ==
  /\ LUTBuilt
  /\ Cardinality({MeasuredDensity(lut.table[i]) : i \in 1..256}) = 3
  /\ MeasuredDensity(lut.ramp[1]) > MeasuredDensity(lut.ramp[2])
  /\ MeasuredDensity(lut.ramp[3]) > MeasuredDensity(lut.ramp[2])

-----------------------------------------------------------------------------
(* Blur and sharpen.  A field is [d, n]: numerators n over the denominator  *)
(* d.  Radii and amounts are whole numbers, as the sliders deliver them.    *)

RECURSIVE Gcd(_, _)
Gcd(a, b) == IF b = 0 THEN a ELSE Gcd(b, a % b)

\* the least common multiple of 1..k: a common denominator of sum / count
RECURSIVE LcmUpTo(_)
LcmUpTo(k) == IF k <= 1 THEN 1 ELSE (LcmUpTo(k - 1) * k) \div Gcd(LcmUpTo(k - 1), k)

\* Math.round(a / b) for whole a and b > 0 (halves go up)
RoundDiv(a, b) == (2 * a + b) \div (2 * b)

\* sum of line[from + 1 .. to] (0-based from, exclusive to)
RECURSIVE LineSum(_, _, _)
LineSum(line, from, to) ==
  IF from >= to THEN IZero ELSE IAdd(line[from + 1], LineSum(line, from + 1, to))

\* the sliding loop of boxBlur along one row or column, from position x on:
\* out[x] = sum / count (as sum * (F / count) over the denominator d * F),
\* then the entering sample is added and the leaving one removed
RECURSIVE BlurFrom(_, _, _, _, _, _)
BlurFrom(line, r, F, x, sum, count) ==
  IF x >= Len(line) THEN << >>
  ELSE LET add  == x + r + 1
           rem  == x - r
           sum1 == IF add < Len(line) THEN IAdd(sum, line[add + 1]) ELSE sum
           cnt1 == IF add < Len(line) THEN count + 1 ELSE count
           sum2 == IF rem >= 0 THEN ISub(sum1, line[rem + 1]) ELSE sum1
           cnt2 == IF rem >= 0 THEN cnt1 - 1 ELSE cnt1
       IN  <<IMulInt(sum, F \div count)>> \o BlurFrom(line, r, F, x + 1, sum2, cnt2)

\* a sliding loop started without the priming loop: the window holds the
\* first sample only
BlurLineUnprimed(line, r, F) == BlurFrom(line, r, F, 0, line[1], 1)

BlurLine(line, r, F) ==
  BlurFrom(line, r, F, 0, LineSum(line, 0, Min(r + 1, Len(line))), Min(r + 1, Len(line)))

\* the horizontal pass of boxBlur
BlurRows(data, w, h, r) ==
  LET F    == LcmUpTo(Min(2 * r + 1, w))
      rows == [y1 \in 1..h |->
                 BlurLine([x1 \in 1..w |-> data.n[(y1 - 1) * w + x1]], r, F)]
  IN  [d |-> NatMulSmall(data.d, F),
       n |-> With(Stored(rows), LAMBDA rs :
               Stored([i \in 1..(w * h) |-> rs[((i - 1) \div w) + 1][((i - 1) % w) + 1]]))]

\* the vertical pass of boxBlur
BlurCols(temp, w, h, r) ==
  LET F    == LcmUpTo(Min(2 * r + 1, h))
      cols == [x1 \in 1..w |->
                 BlurLine([y1 \in 1..h |-> temp.n[(y1 - 1) * w + x1]], r, F)]
  IN  [d |-> NatMulSmall(temp.d, F),
       n |-> With(Stored(cols), LAMBDA cs :
               Stored([i \in 1..(w * h) |-> cs[((i - 1) % w) + 1][((i - 1) \div w) + 1]]))]

boxBlur(data, w, h, radius) ==
  IF radius < 1 THEN data
  ELSE With(BlurRows(data, w, h, radius), LAMBDA temp : BlurCols(temp, w, h, radius))

\* r = Math.max(1, Math.round(radius / 1.73)), three box passes
gaussianBlur(data, w, h, radius) ==
  LET r == Max(1, RoundDiv(100 * radius, 173))
  IN  With(boxBlur(data, w, h, r), LAMBDA pass1 :
        With(boxBlur(pass1, w, h, r), LAMBDA pass2 : boxBlur(pass2, w, h, r)))

\* Math.max(0, Math.min(255, v)) on numerators over d
Clamp255(n, d) == IMax(IZero, IMin(IMulInt(IFromNat(d), 255), n))

\* the factor by which boxBlur multiplies the denominator of its field
BoxFactor(w, h, radius) ==
  IF radius < 1 THEN 1
  ELSE LcmUpTo(Min(2 * radius + 1, w)) * LcmUpTo(Min(2 * radius + 1, h))

\* the factor by which gaussianBlur multiplies the denominator of its field
GaussFactor(w, h, radius) ==
  LET k == NatFromInt(BoxFactor(w, h, Max(1, RoundDiv(100 * radius, 173))))
  IN  NatMul(NatMul(k, k), k)

\* the numerators of f over the denominator f.d * k
Rescale(f, k) == Stored([i \in 1..Len(f.n) |-> IMulNat(f.n[i], k)])

unsharpMask(data, w, h, amount) ==
  IF amount <= 0 THEN data
  ELSE With(gaussianBlur(data, w, h, 2), LAMBDA blurred :
         With(Rescale(data, GaussFactor(w, h, 2)), LAMBDA dn :
           [d |-> NatMulSmall(blurred.d, 100),
            n |-> Stored([i \in 1..Len(dn) |->
                            Clamp255(IAdd(IMulInt(dn[i], 100),
                                          IMulInt(ISub(dn[i], blurred.n[i]), amount)),
                                     NatMulSmall(blurred.d, 100))])]))

-----------------------------------------------------------------------------
(* The global tone adjuster (createAdjustedCanvas).  A canvas is            *)
(* [w, h, px]: px the <<r, g, b>> bytes of its pixels, row by row.          *)
(* settings.gamma is kept in hundredths; the adjuster is modelled for whole  *)
(* exponents (gamma 100, 200, ...).                                         *)

\* grey[i] = 0.299 * r + 0.587 * g + 0.114 * b, in thousandths
getGreyscale(canvas) ==
  [d |-> NatFromInt(1000),
   n |-> Stored([i \in 1..Len(canvas.px) |->
            IFromInt(299 * canvas.px[i][1] + 587 * canvas.px[i][2]
                     + 114 * canvas.px[i][3])])]

\* v = Math.max(0, Math.min(255, Math.round(grey[i]))), written to r, g and b
greyToCanvas(grey, w, h) ==
  [w |-> w, h |-> h,
   px |-> Stored([i \in 1..Len(grey.n) |->
                    LET v == Max(0, Min(255, RoundQuot(grey.n[i], grey.d)))
                    IN  <<v, v, v>>])]

\* grey[i] = 128 + (grey[i] - blurred[i]) * 2
HighPass(grey, w, h, radius) ==
  With(gaussianBlur(grey, w, h, radius), LAMBDA blurred :
    With(Rescale(grey, GaussFactor(w, h, radius)), LAMBDA gn :
      [d |-> blurred.d,
       n |-> Stored([i \in 1..Len(gn) |->
                       IAdd(IMulInt(IFromNat(blurred.d), 128),
                            IMulInt(ISub(gn[i], blurred.n[i]), 2))])]))

\* a levels step that maps [bp, wp] onto 255 over a range one too wide
ToneLevelsWide(f, bp, wp) ==
  [d |-> NatMulSmall(f.d, Max(1, wp - bp + 1)),
   n |-> [i \in 1..Len(f.n) |-> IMulInt(ISub(f.n[i], IMulInt(IFromNat(f.d), bp)), 255)]]

\* v = ((v - bp) / range) * 255, range = Math.max(1, wp - bp)
ToneLevels(f, bp, wp) ==
  [d |-> NatMulSmall(f.d, Max(1, wp - bp)),
   n |-> [i \in 1..Len(f.n) |-> IMulInt(ISub(f.n[i], IMulInt(IFromNat(f.d), bp)), 255)]]

\* v += settings.brightness
ToneBrightness(f, brightness) ==
  [d |-> f.d,
   n |-> [i \in 1..Len(f.n) |-> IAdd(f.n[i], IMulInt(IFromNat(f.d), brightness))]]

\* v = (v - 128) * cf + 128, cf = settings.contrast / 100
ToneContrast(f, contrast) ==
  [d |-> NatMulSmall(f.d, 100),
   n |-> [i \in 1..Len(f.n) |->
            IAdd(IMulInt(ISub(f.n[i], IMulInt(IFromNat(f.d), 128)), contrast),
                 IMulInt(IFromNat(f.d), 12800))]]

\* a ^ g for a whole exponent g >= 1
RECURSIVE IPow(_, _)
IPow(a, g) == IF g <= 1 THEN a ELSE IMul(a, IPow(a, g - 1))

\* v = Math.max(0, v); v = 255 * Math.pow(v / 255, gamma):
\* n^g / (255^(g-1) * d^g)
ToneGamma(f, gamma) ==
  LET g == gamma \div 100
  IN  [d |-> IPow(IFromNat(NatMulSmall(f.d, 255)), g).m,
       n |-> [i \in 1..Len(f.n) |-> IMulInt(IPow(IMax(IZero, f.n[i]), g), 255)]]

\* if (posterize >= 2) v = Math.round(v / step) * step, step = 255 / (posterize - 1)
TonePosterize(f, posterize) ==
  IF posterize >= 2
  THEN [d |-> NatMulSmall(f.d, posterize - 1),
        n |-> [i \in 1..Len(f.n) |-> LevelNum(QuantLevel(f.n[i], f.d, posterize), f.d)]]
  ELSE f

\* if (settings.invert) v = 255 - v
ToneInvert(f, invert) ==
  IF invert
  THEN [d |-> f.d, n |-> [i \in 1..Len(f.n) |-> ISub(IMulInt(IFromNat(f.d), 255), f.n[i])]]
  ELSE f

\* grey[i] = Math.max(0, Math.min(255, v))
ToneClamp(f) ==
  [d |-> f.d, n |-> Stored([i \in 1..Len(f.n) |-> Clamp255(f.n[i], f.d)])]

\* a per-sample loop that applies the gamma before the contrast
PerSampleGammaFirst(g3, settings) ==
  ToneClamp(
    ToneInvert(
      TonePosterize(
        ToneContrast(
          ToneGamma(
            ToneBrightness(
              ToneLevels(g3, settings.blackPoint, settings.whitePoint),
              settings.brightness),
            settings.gamma),
          settings.contrast),
        settings.posterize),
      settings.invert))

\* the loop over the samples: levels, brightness, contrast, gamma, posterize,
\* invert, clamp
PerSample(g3, settings) ==
  ToneClamp(
    ToneInvert(
      TonePosterize(
        ToneGamma(
          ToneContrast(
            ToneBrightness(
              ToneLevels(g3, settings.blackPoint, settings.whitePoint),
              settings.brightness),
            settings.contrast),
          settings.gamma),
        settings.posterize),
      settings.invert))

\* the field createAdjustedCanvas hands to greyToCanvas; pre is history: the
\* field its loop over the samples starts from
AdjustedGrey(source, settings) ==
  LET w == source.w
      h == source.h
      Blurred(g0) ==
        IF settings.blur > 0 THEN gaussianBlur(g0, w, h, settings.blur) ELSE g0
      HighPassed(g1) ==
        IF settings.highPassRadius > 0
        THEN HighPass(g1, w, h, settings.highPassRadius) ELSE g1
      Sharpened(g2) ==
        IF settings.sharpen > 0 THEN unsharpMask(g2, w, h, settings.sharpen) ELSE g2
  IN  With(getGreyscale(source), LAMBDA g0 :
        With(Blurred(g0), LAMBDA g1 :
          With(HighPassed(g1), LAMBDA g2 :
            With(Sharpened(g2), LAMBDA g3 :
              With(PerSample(g3, settings), LAMBDA out :
                [d |-> out.d, n |-> out.n,
                 pre |-> [d |-> g3.d, n |-> Stored(g3.n)]])))))

createAdjustedCanvas(source, settings) ==
  With(AdjustedGrey(source, settings), LAMBDA grey :
    greyToCanvas(grey, source.w, source.h))

MaxToneW == 3

MaxToneH == 2

Black == <<0, 0, 0>>

White == <<255, 255, 255>>

\* the pixels an image repeats, row by row: greys only; colours whose
\* luminance is no whole number (76.245, 123.81, 29.07) with white; mid-grey
Palettes == { <<Black, White, <<128, 128, 128>>, <<65, 65, 65>> >>,
              << <<255, 0, 0>>, <<10, 200, 30>>, White, <<0, 0, 255>> >>,
              << <<128, 128, 128>> >> }

Image(w, h, pal) ==
  [w |-> w, h |-> h, px |-> [i \in 1..(w * h) |-> pal[((i - 1) % Len(pal)) + 1]]]

\* defaultSettings(), without the background colour the adjuster never reads
NeutralTone == [contrast |-> 100, brightness |-> 0, gamma |-> 100,
                blackPoint |-> 0, whitePoint |-> 255, posterize |-> 0]

TonePresets ==
  { NeutralTone,
    [contrast |-> 150, brightness |-> 20, gamma |-> 200,
     blackPoint |-> 30, whitePoint |-> 200, posterize |-> 4],
    [NeutralTone EXCEPT !.posterize = 3],
    [NeutralTone EXCEPT !.blackPoint = 20, !.whitePoint = 180],
    [contrast |-> 150, brightness |-> 20, gamma |-> 200,
     blackPoint |-> 76, whitePoint |-> 60, posterize |-> 16] }

ToneSettings ==
  { [contrast |-> t.contrast, brightness |-> t.brightness, gamma |-> t.gamma,
     blackPoint |-> t.blackPoint, whitePoint |-> t.whitePoint,
     posterize |-> t.posterize,
     blur |-> bl, highPassRadius |-> hp, sharpen |-> sh, invert |-> inv] :
      t \in TonePresets, bl \in {0, 2}, hp \in {0, 3}, sh \in {0, 100},
      inv \in BOOLEAN }

ToneInit ==
  /\ dither = Idle /\ lut = Idle /\ render = Idle /\ comp = Idle /\ auto = Idle
  /\ cache = Idle /\ app = Idle
  /\ \E w \in 1..MaxToneW, h \in 1..MaxToneH, pal \in Palettes,
        settings \in ToneSettings :
       tone = [pass |-> 1, source |-> Image(w, h, pal), settings |-> settings,
               out |-> Idle, grey |-> Idle, pre |-> Idle]

\* createAdjustedCanvas: the adjusted field, then greyToCanvas; grey and pre
\* are history
ToneAdjust ==
  /\ tone.pass = 1
  /\ \E grey \in {AdjustedGrey(tone.source, tone.settings)} :
       tone' = [tone EXCEPT !.pass = 2,
                            !.out = greyToCanvas(grey, tone.source.w, tone.source.h),
                            !.grey = [d |-> grey.d, n |-> grey.n],
                            !.pre = grey.pre]
  /\ UNCHANGED <<dither, lut, render, comp, auto, cache, app>>

ToneNext == ToneAdjust

SpecTone == ToneInit /\ [][ToneNext]_vars

ToneDone == tone.pass = 2

\* the settings C1 fixes
C1Settings ==
  /\ tone.settings.posterize = 0 /\ tone.settings.gamma = 100
  /\ tone.settings.contrast = 100 /\ tone.settings.brightness = 0
  /\ tone.settings.blackPoint = 0 /\ tone.settings.whitePoint = 255
  /\ tone.settings.blur = 0 /\ tone.settings.sharpen = 0

-----------------------------------------------------------------------------
(* The auto-optimizer (autoOptimizeSettings, and autoOptimize of the CLI).  *)
(* Gamma is kept in hundredths.  Math.log(0.5) / Math.log(x) is 1 / log2 of *)
(* 1 / x; the binary logarithm is computed digit by digit in fixed point    *)
(* with sixteen decimal places, once rounding every step down and once up,  *)
(* to twenty binary places.                                                 *)

\* floor(a / k) for a multi-limb a and a small k
RECURSIVE NatDivSmallR(_, _, _)
NatDivSmallR(a, k, r) ==
  IF a = << >> THEN << >>
  ELSE LET cur == r * Base + a[Len(a)]
       IN  Append(NatDivSmallR(SubSeq(a, 1, Len(a) - 1), k, cur % k), cur \div k)

NatDivSmall(a, k) == NatNorm(NatDivSmallR(a, k, 0))

\* the fixed-point unit, Base^4
FixOne == <<0, 0, 0, 0, 1>>

FixTwo == <<0, 0, 0, 0, 2>>

\* floor(a / Base^4)
FixDrop(a) == IF Len(a) <= 4 THEN << >> ELSE SubSeq(a, 5, Len(a))

LogPlaces == 20

TwoToLogPlaces == 1024 * 1024

\* the first i binary places of log2(m / FixOne) for FixOne <= m < FixTwo,
\* each step rounded up (up) or down
RECURSIVE LogBits(_, _, _, _)
LogBits(m, i, acc, up) ==
  IF i = 0 THEN acc
  ELSE LET sq0 == FixDrop(NatMul(m, m))
           sq  == IF up THEN NatAdd(sq0, <<1>>) ELSE sq0
       IN  IF NatCmp(sq, FixTwo) >= 0
           THEN LogBits(IF up THEN NatAdd(NatDivSmall(sq, 2), <<1>>) ELSE NatDivSmall(sq, 2),
                        i - 1, 2 * acc + 1, up)
           ELSE LogBits(sq, i - 1, 2 * acc, up)

\* the largest e with p * 2^e <= q
RECURSIVE Log2Floor(_, _)
Log2Floor(p, q) == IF 2 * p > q THEN 0 ELSE 1 + Log2Floor(2 * p, q)

RECURSIVE Pow2(_)
Pow2(e) == IF e = 0 THEN 1 ELSE 2 * Pow2(e - 1)

\* Math.round(100 * g) for g = 1 / L clamped to [0.3, 2.5], L = a / 2^20
GammaOfLog(a) ==
  IF a = 0 THEN 250
  ELSE Max(30, Min(250, (200 * TwoToLogPlaces + a) \div (2 * a)))

\* gamma in hundredths for normalizedMean = p / q:
\*   normalizedMean > 0.01 ? max(0.3, min(2.5, log(0.5) / log(normalizedMean))) : 1.0
\* then Math.round(gamma * 100) / 100.  At normalizedMean = 1 the quotient is
\* -Infinity, above 1 it is negative: both clamp to 0.3.  The result is the
\* set of values the two roundings of the logarithm leave possible.
GammaHundredths(p, q) ==
  IF 100 * p <= q THEN {100}
  ELSE IF p >= q THEN {30}
  ELSE LET e   == Log2Floor(p, q)
           mlo == NatDivSmall(NatMul(NatFromInt(q), FixOne), p * Pow2(e))
           alo == e * TwoToLogPlaces + LogBits(mlo, LogPlaces, 0, FALSE)
           ahi == e * TwoToLogPlaces + LogBits(NatAdd(mlo, <<1>>), LogPlaces, 0, TRUE) + 1
       IN  GammaOfLog(ahi)..GammaOfLog(alo)

\* Loops of more than a hundred iterations are unfolded by halves: the first
\* half runs, then the second half on its result.

\* hist[lum]++ for the pixels from..to, lum = Math.round(luminance)
RECURSIVE HistOfPixels(_, _, _, _)
HistOfPixels(px, hist, from, to) ==
  IF from > to THEN hist
  ELSE IF from = to
  THEN LET lum == RoundDiv(299 * px[from][1] + 587 * px[from][2] + 114 * px[from][3], 1000)
       IN  [hist EXCEPT ![lum] = @ + 1]
  ELSE LET mid  == (from + to) \div 2
           half == HistOfPixels(px, hist, from, mid)
       IN  IF half[0] >= 0 THEN HistOfPixels(px, half, mid + 1, to) ELSE half

\* the CLI's histogram: hist[Math.round(Math.max(0, Math.min(255, grey[i])))]++
RECURSIVE HistOfGrey(_, _, _, _)
HistOfGrey(grey, hist, from, to) ==
  IF from > to THEN hist
  ELSE IF from = to
  THEN LET v == RoundQuot(Clamp255(grey.n[from], grey.d), grey.d)
       IN  [hist EXCEPT ![v] = @ + 1]
  ELSE LET mid  == (from + to) \div 2
           half == HistOfGrey(grey, hist, from, mid)
       IN  IF half[0] >= 0 THEN HistOfGrey(grey, half, mid + 1, to) ELSE half

EmptyHist == [v \in 0..255 |-> 0]

\* one iteration of the percentile loop:
\*   cumulative += hist[i];
\*   if (cumulative >= lo && blackPoint === 0) blackPoint = i;
\*   if (cumulative >= hi) { whitePoint = i; break; }
PercentileStep(st, hist, lo, hi, i) ==
  LET cum == st.cumulative + hist[i]
      bp  == IF cum >= lo /\ st.blackPoint = 0 THEN i ELSE st.blackPoint
  IN  IF cum >= hi
      THEN [cumulative |-> cum, blackPoint |-> bp, whitePoint |-> i, break |-> TRUE]
      ELSE [cumulative |-> cum, blackPoint |-> bp, whitePoint |-> st.whitePoint,
            break |-> FALSE]

\* the iterations from..to of the percentile loop
RECURSIVE PercentileScan(_, _, _, _, _, _)
PercentileScan(st, hist, lo, hi, from, to) ==
  IF from = to THEN PercentileStep(st, hist, lo, hi, from)
  ELSE LET mid  == (from + to) \div 2
           half == PercentileScan(st, hist, lo, hi, from, mid)
       IN  IF half.break THEN half ELSE PercentileScan(half, hist, lo, hi, mid + 1, to)

\* sum of i * hist[i] (weighted) or of hist[i] over i in from..to
RECURSIVE HistSum(_, _, _, _)
HistSum(hist, from, to, weighted) ==
  IF from > to THEN 0
  ELSE IF from = to THEN (IF weighted THEN from * hist[from] ELSE hist[from])
  ELSE HistSum(hist, from, (from + to) \div 2, weighted)
       + HistSum(hist, ((from + to) \div 2) + 1, to, weighted)

\* the percentile loop over the histogram of pixels samples:
\* lo = Math.round(pixels * 0.005), hi = Math.round(pixels * 0.995)
PercentilePoints(hist, pixels) ==
  PercentileScan([cumulative |-> 0, blackPoint |-> 0, whitePoint |-> 255,
                  break |-> FALSE], hist, RoundDiv(5 * pixels, 1000),
                 RoundDiv(995 * pixels, 1000), 0, 255)

\* defaultSettings()
AutoDefaults ==
  [contrast |-> 100, brightness |-> 0, gamma |-> 100, invert |-> FALSE,
   highPassRadius |-> 0, blackPoint |-> 0, whitePoint |-> 255, blur |-> 0,
   sharpen |-> 0, posterize |-> 0, backgroundColor |-> "transparent"]

\* a return that writes the five values into fresh default settings
MergeIntoDefaults(current, bp, wp, brightness, contrast, g) ==
  [AutoDefaults EXCEPT !.blackPoint = Max(0, bp - 2),
                       !.whitePoint = Min(255, wp + 2),
                       !.brightness = Max(-150, Min(150, brightness)),
                       !.contrast = Max(80, Min(200, contrast)),
                       !.gamma = g]

\* return { ...current, blackPoint: ..., whitePoint: ..., brightness: ...,
\* contrast: ..., gamma: ... }: a new object, current is only read
MergeSettings(current, bp, wp, brightness, contrast, g) ==
  [current EXCEPT !.blackPoint = Max(0, bp - 2),
                  !.whitePoint = Min(255, wp + 2),
                  !.brightness = Max(-150, Min(150, brightness)),
                  !.contrast = Max(80, Min(200, contrast)),
                  !.gamma = g]

\* the optimizer from the histogram on (the two implementations agree from
\* there): the settings it can return, gamma in hundredths
OptimizeFromHist(hist, pixels, current) ==
  LET pts   == PercentilePoints(hist, pixels)
      bp    == pts.blackPoint
      wp    == pts.whitePoint
      sum   == HistSum(hist, bp, wp, TRUE)
      count == HistSum(hist, bp, wp, FALSE)
      \* mean = meanNum / meanDen
      meanNum == IF count > 0 THEN sum ELSE 128
      meanDen == IF count > 0 THEN count ELSE 1
      brightness == RoundDiv(6 * (128 * meanDen - meanNum), 10 * meanDen)
      range    == wp - bp
      contrast == IF range < 180 THEN RoundDiv(22000, Max(1, range)) ELSE 100
  IN  { MergeSettings(current, bp, wp, brightness, contrast, g) :
          g \in GammaHundredths(meanNum - bp * meanDen, meanDen * Max(1, range)) }

\* engine.ts: the histogram of the drawn image's pixels
autoOptimizeSettings(image, current) ==
  OptimizeFromHist(HistOfPixels(image.px, EmptyHist, 1, Len(image.px)),
                   image.w * image.h, current)

\* cli.mjs: the histogram of the greyscale field
autoOptimize(grey, cfg) ==
  OptimizeFromHist(HistOfGrey(grey, EmptyHist, 1, Len(grey.n)), Len(grey.n), cfg)

MaxAutoW == 12

MaxAutoH == 10

\* the pixels an image repeats: mid-grey (luminance 128) everywhere; a dark
\* photograph; black and white; three greys
AutoPalettes == { << <<128, 128, 128>> >>,
                  << <<20, 30, 10>>, <<60, 50, 40>>, <<90, 80, 120>>, <<30, 30, 30>> >>,
                  << Black, White >>,
                  << <<64, 64, 64>>, <<128, 128, 128>>, <<250, 250, 250>> >> }

\* the settings before the call: the defaults, or settings already changed
\* that carry one more field
AutoCurrent ==
  { AutoDefaults,
    [contrast |-> 90, brightness |-> 20, gamma |-> 150, invert |-> TRUE,
     highPassRadius |-> 1, blackPoint |-> 5, whitePoint |-> 200, blur |-> 1,
     sharpen |-> 20, posterize |-> 8, backgroundColor |-> "#000000",
     zoom |-> 2] }

AutoInit ==
  /\ dither = Idle /\ lut = Idle /\ tone = Idle /\ render = Idle /\ comp = Idle
  /\ cache = Idle /\ app = Idle
  /\ \E w \in 1..MaxAutoW, h \in 1..MaxAutoH, pal \in AutoPalettes,
        current \in AutoCurrent, impl \in {"engine", "cli"} :
       auto = [pass |-> 1, impl |-> impl, image |-> Image(w, h, pal),
               current |-> current, result |-> Idle]

\* the call returns; the engine reads the image's pixels, the CLI its
\* greyscale field
AutoOptimize ==
  /\ auto.pass = 1
  /\ \E result \in (IF auto.impl = "engine"
                    THEN autoOptimizeSettings(auto.image, auto.current)
                    ELSE autoOptimize(getGreyscale(auto.image), auto.current)) :
       auto' = [auto EXCEPT !.pass = 2, !.result = result]
  /\ UNCHANGED <<dither, lut, tone, render, comp, cache, app>>

AutoNext == AutoOptimize

SpecAuto == AutoInit /\ [][AutoNext]_vars

AutoDone == auto.pass = 2

\* every pixel of the image has luminance 128
AllMidGrey ==
  \A i \in 1..Len(auto.image.px) :
     RoundDiv(299 * auto.image.px[i][1] + 587 * auto.image.px[i][2]
                + 114 * auto.image.px[i][3], 1000) = 128

\* C10: for an image whose pixels all have luminance 128, whatever the pixel
\* count, the auto-optimizer returns brightness 0, gamma 1.0 and contrast 100.
C10_MidGreyNeedsNoCorrection ==
  (AutoDone /\ AllMidGrey) =>
     /\ auto.result.brightness = 0
     /\ auto.result.gamma = 100
     /\ auto.result.contrast = 100

\* the fields autoOptimizeSettings computes
OptimizedFields == {"blackPoint", "whitePoint", "brightness", "contrast", "gamma"}

\* C11: autoOptimizeSettings changes only blackPoint, whitePoint, brightness,
\* contrast and gamma: the returned settings have the fields of the current
\* settings, every other field (invert, highPassRadius, blur, sharpen,
\* posterize, backgroundColor, any further field) with the value it had, and
\* the call leaves the current settings as they were.
C11_OnlyFiveFieldsChange ==
  [][AutoOptimize =>
       /\ auto'.current = auto.current
       /\ DOMAIN auto'.result = DOMAIN auto.current
       /\ \A f \in (DOMAIN auto.current) \ OptimizedFields :
            auto'.result[f] = auto.current[f]]_vars

\* the engine's optimizer has returned for settings that were not the
\* defaults and carry a further field, and it changed a field it computes
C11_Witness ==
  /\ AutoDone /\ auto.impl = "engine"
  /\ "zoom" \in DOMAIN auto.current /\ auto.result.zoom = 2
  /\ auto.current.invert /\ auto.current.posterize = 8
  /\ auto.result.blackPoint # auto.current.blackPoint

-----------------------------------------------------------------------------
(* The per-layer intensity engine (computeIntensity).  Math.sqrt is         *)
(* computed down to the unit of the greyscale numerators (thousandths); the *)
(* stipple generator's products exceed 2^53 and are rounded as IEEE doubles *)
(* round them.                                                              *)

\* floor(sqrt(N)) by bisection, lo^2 <= N < hi^2
RECURSIVE SqrtBis(_, _, _)
SqrtBis(N, lo, hi) ==
  IF lo + 1 >= hi THEN lo
  ELSE LET mid == (lo + hi) \div 2
       IN  IF NatCmp(NatMul(NatFromInt(mid), NatFromInt(mid)), N) <= 0
           THEN SqrtBis(N, mid, hi)
           ELSE SqrtBis(N, lo, mid)

\* Math.sqrt(N), rounded down, for N < 2^42 (gradients of bytes in thousandths)
NatSqrt(N) == SqrtBis(N, 0, Pow2(21))

RECURSIVE Pow2Nat(_)
Pow2Nat(k) == IF k <= 16 THEN NatFromInt(Pow2(k)) ELSE NatMulSmall(Pow2Nat(k - 16), 65536)

\* the whole number X < 2^64 as the nearest IEEE double (ties to even)
DoubleOf(X) ==
  IF NatCmp(X, Pow2Nat(53)) < 0 THEN X
  ELSE LET e    == CHOOSE k \in 1..11 : /\ NatCmp(X, Pow2Nat(52 + k)) >= 0
                                        /\ NatCmp(X, Pow2Nat(53 + k)) < 0
           q    == NatDivSmall(X, Pow2(e))
           r    == NatSub(X, NatMulSmall(q, Pow2(e)))
           c    == NatCmp(r, NatFromInt(Pow2(e - 1)))
           odd  == q[1] % 2 = 1
       IN  NatMulSmall(IF c > 0 \/ (c = 0 /\ odd) THEN NatAdd(q, <<1>>) ELSE q, Pow2(e))

\* X & 0x7fffffff for a whole X >= 0: X mod 2^31, as a machine integer
Mask31(X) ==
  LET q == NatDivSmall(NatDivSmall(X, 65536), 32768)
      r == NatSub(X, NatMulSmall(NatMulSmall(q, 65536), 32768))
  IN  (IF Len(r) >= 1 THEN r[1] ELSE 0) + (IF Len(r) >= 2 THEN r[2] * Base ELSE 0)
        + (IF Len(r) >= 3 THEN r[3] * Base * Base ELSE 0)

\* seed = (seed * 1103515245 + 12345) & 0x7fffffff
RandNext(seed) ==
  Mask31(DoubleOf(NatAdd(DoubleOf(NatMul(NatFromInt(seed), NatFromInt(1103515245))),
                         NatFromInt(12345))))

\* one cell of sobelEdges: Math.sqrt(gx * gx + gy * gy) * s with s = sensitivity / 100,
\* as a numerator over grey.d * 100; border cells stay 0
SobelCell(grey, w, h, sensitivity, i) ==
  LET x == i % w
      y == i \div w
      g(dx, dy) == grey.n[(y + dy) * w + (x + dx) + 1]
  IN  IF x < 1 \/ x >= w - 1 \/ y < 1 \/ y >= h - 1 THEN IZero
      ELSE LET gx == ISum(<<INeg(g(-1, -1)), g(1, -1), IMulInt(g(-1, 0), -2),
                            IMulInt(g(1, 0), 2), INeg(g(-1, 1)), g(1, 1)>>)
               gy == ISum(<<INeg(g(-1, -1)), IMulInt(g(0, -1), -2), INeg(g(1, -1)),
                            g(-1, 1), IMulInt(g(0, 1), 2), g(1, 1)>>)
           IN  IMulInt(IFromInt(NatSqrt(IAdd(IMul(gx, gx), IMul(gy, gy)).m)), sensitivity)

sobelEdges(grey, w, h, sensitivity) ==
  [d |-> NatMulSmall(grey.d, 100),
   n |-> Stored([i1 \in 1..(w * h) |-> SobelCell(grey, w, h, sensitivity, i1 - 1)])]

\* let max = 0; for (const v of f) if (v > max) max = v  (the numerator)
RECURSIVE MaxNum(_, _)
MaxNum(n, i) == IF i > Len(n) THEN IZero ELSE IMax(n[i], MaxNum(n, i + 1))

\* the seeds rand() leaves after its first n calls, starting from 42
RECURSIVE SeedsOf(_)
SeedsOf(n) ==
  IF n = 0 THEN << >>
  ELSE LET init == SeedsOf(n - 1)
           prev == IF n = 1 THEN 42 ELSE init[n - 1]
       IN  IF prev >= 0 THEN Append(init, RandNext(prev)) ELSE init

\* the grids the layers are rendered on go up to MaxCols x MaxRows cells
MaxCols == 3

MaxRows == 3

\* the seeds of one stippleIntensity call: every call starts again from 42
StippleSeeds == SeedsOf(MaxCols * MaxRows)

\* rand() < (darkness / 255) * (darkness / 255), rand() = seed / 0x7fffffff
StippleHit(seed, dk, d) ==
  NatCmp(NatMulSmall(NatMul(NatMul(d, d), NatFromInt(seed)), 65025),
         NatMul(NatMul(dk.m, dk.m), NatFromInt(2147483647))) < 0

\* a darkness that reads the brightness whatever the render mode
DarknessOfLight(grey, darkOnLight) == Stored(grey.n)

\* darkOnLight ? 255 - grey[i] : grey[i]
Darkness(grey, darkOnLight) ==
  Stored([i \in 1..Len(grey.n) |->
            IF darkOnLight THEN ISub(IMulInt(IFromNat(grey.d), 255), grey.n[i])
            ELSE grey.n[i]])

\* result[i] = rand() < ... ? darkness * 1.5 : 0, cells in row order
stippleIntensity(grey, w, h, darkOnLight) ==
  With(Darkness(grey, darkOnLight), LAMBDA dk :
    [d |-> NatMulSmall(grey.d, 2),
     n |-> Stored([i \in 1..(w * h) |->
                     IF StippleHit(StippleSeeds[i], dk[i], grey.d) THEN IMulInt(dk[i], 3)
                     ELSE IZero])])

\* the switch of computeIntensity: the intensity before contrast, invert and cutoff
RawIntensity(grey, w, h, algorithm, edgeSensitivity, darkOnLight) ==
  CASE algorithm = "brightness" -> [d |-> grey.d, n |-> Darkness(grey, darkOnLight)]
    [] algorithm = "edges" ->
         With(sobelEdges(grey, w, h, edgeSensitivity), LAMBDA edges :
           With(MaxNum(edges.n, 1), LAMBDA max :
             IF ICmp(max, IZero) > 0
             THEN [d |-> max.m,
                   n |-> Stored([i \in 1..Len(edges.n) |-> IMulInt(edges.n[i], 255)])]
             ELSE edges))
    [] algorithm = "highpass" ->
         With(boxBlur(grey, w, h, 3), LAMBDA blurred :
           With(Rescale(grey, NatFromInt(BoxFactor(w, h, 3))), LAMBDA gn :
             [d |-> blurred.d,
              n |-> Stored([i \in 1..Len(gn) |->
                              IMulInt(IAbs(ISub(gn[i], blurred.n[i])), 4)])]))
    [] algorithm = "detail" ->
         With(sobelEdges(grey, w, h, edgeSensitivity), LAMBDA edges :
           With(boxBlur(grey, w, h, 3), LAMBDA blurred :
             With(MaxNum(edges.n, 1), LAMBDA max :
               With(Rescale(grey, NatFromInt(BoxFactor(w, h, 3))), LAMBDA gn :
                 With(Darkness([d |-> blurred.d, n |-> gn], darkOnLight), LAMBDA bright :
                   LET M == IF ICmp(max, IZero) > 0 THEN max.m ELSE <<1>>
                   \* e * 0.5 + hp * 0.3 + bright * 0.2 over 10 * M * blurred.d
                   IN  [d |-> NatMulSmall(NatMul(M, blurred.d), 10),
                        n |-> Stored([i \in 1..Len(gn) |->
                                 IAdd(IMulNat(IMulInt(edges.n[i], 5 * 255), blurred.d),
                                      IMulNat(IAdd(IMulInt(IAbs(ISub(gn[i], blurred.n[i])),
                                                           9),
                                                   IMulInt(bright[i], 2)), M))])])))))
    [] algorithm = "stipple" -> stippleIntensity(grey, w, h, darkOnLight)

\* a post step that inverts before it applies the contrast
PostInvertFirst(raw, contrast, invert) ==
  LET inv == ToneInvert(raw, invert)
  IN  [d |-> NatMulSmall(inv.d, 100),
       n |-> [i \in 1..Len(inv.n) |-> IMulInt(inv.n[i], contrast)]]

\* a post step that inverts whatever the flag says
PostStepInverted(raw, contrast, invert) ==
  ToneInvert([d |-> NatMulSmall(raw.d, 100),
              n |-> [i \in 1..Len(raw.n) |-> IMulInt(raw.n[i], contrast)]], TRUE)

\* v = intensity[i] * cf; if (invert) v = 255 - v      (cf = contrast / 100)
PostStep(raw, contrast, invert) ==
  ToneInvert([d |-> NatMulSmall(raw.d, 100),
              n |-> [i \in 1..Len(raw.n) |-> IMulInt(raw.n[i], contrast)]], invert)

\* a cutoff that also zeroes the cells exactly at the threshold
CutoffInclusive(post, threshold) ==
  [d |-> post.d,
   n |-> [i \in 1..Len(post.n) |->
            IF ICmp(post.n[i], IMulInt(IFromNat(post.d), threshold)) <= 0 THEN IZero
            ELSE post.n[i]]]

\* if (v < threshold) v = 0
Cutoff(post, threshold) ==
  [d |-> post.d,
   n |-> [i \in 1..Len(post.n) |->
            IF ICmp(post.n[i], IMulInt(IFromNat(post.d), threshold)) < 0 THEN IZero
            ELSE post.n[i]]]

\* the field computeIntensity returns; raw and post are history: the values
\* the switch left, and the values v had after the contrast and invert steps,
\* before the cutoff
computeIntensity(grey, w, h, algorithm, contrast, invert, threshold, edgeSensitivity, renderMode) ==
  With(RawIntensity(grey, w, h, algorithm, edgeSensitivity,
                    renderMode = "dark-on-light"), LAMBDA intensity :
    With(PostStep(intensity, contrast, invert), LAMBDA post :
      With(ToneClamp(Cutoff(post, threshold)), LAMBDA result :
        [d |-> result.d, n |-> result.n,
         raw |-> [d |-> intensity.d, n |-> Stored(intensity.n)],
         post |-> [d |-> post.d, n |-> Stored(post.n)]])))

-----------------------------------------------------------------------------
(* Rendering one layer (renderAsciiLayer, renderAsciiText).  The font is     *)
(* modelled by what measureText and fillText deliver: an advance of GlyphW   *)
(* pixels, a line of GlyphH pixels, and per glyph the number of pixels it    *)
(* paints in its cell (the first k pixels of the cell, row by row).  A       *)
(* layer canvas is [w, h, px] with px the <<r, g, b, a>> bytes.              *)

GlyphW == 2

GlyphH == 3

\* the overlap of source sample s and destination sample d on one axis, in
\* units of 1 / (S * D) of the axis
ResizeWeight(S, D, s, d) == Max(0, Min((s + 1) * D, (d + 1) * S) - Max(s * D, d * S))

RECURSIVE SumTo(_, _)
SumTo(f, k) == IF k = 0 THEN 0 ELSE f[k] + SumTo(f, k - 1)

\* ctx.drawImage(source, 0, 0, w, h) with smoothing: every destination pixel
\* is the area-weighted mean of the source pixels it covers, stored as bytes
resizeCanvas(source, w, h) ==
  [w |-> w, h |-> h,
   px |-> Stored([i \in 1..(w * h) |->
            With(Stored([j \in 1..(source.w * source.h) |->
                           ResizeWeight(source.w, w, (j - 1) % source.w, (i - 1) % w)
                         * ResizeWeight(source.h, h, (j - 1) \div source.w,
                                        (i - 1) \div w)]),
                 LAMBDA wt :
              [k \in 1..3 |->
                 RoundDiv(SumTo([j \in 1..Len(wt) |-> wt[j] * source.px[j][k]], Len(wt)),
                          source.w * source.h)])])]

Algorithms == {"brightness", "edges", "highpass", "detail", "stipple"}

\* the cell a skipped iteration leaves behind
NoGlyph == ""

\* resample, greyscale, computeIntensity and the optional dither; raw, post
\* and cut are history: what computeIntensity had after its switch, before its
\* cutoff, and returned
LayerIntensity(adjusted, layer, cols, rows) ==
  With(resizeCanvas(adjusted, cols, rows), LAMBDA sampled :
    With(getGreyscale(sampled), LAMBDA grey :
      With(computeIntensity(grey, cols, rows, layer.algorithm, layer.contrast,
                            layer.invert, layer.threshold, layer.edgeSensitivity,
                            layer.renderMode), LAMBDA intensity :
        With(IF layer.dithering # "none"
             THEN applyDithering(intensity, cols, rows, layer.dithering, Len(layer.ramp))
             ELSE intensity, LAMBDA final :
          [d |-> final.d, n |-> final.n, raw |-> intensity.raw, post |-> intensity.post,
           cut |-> [d |-> intensity.d, n |-> intensity.n]]))))

\* the body of the cell loop: val = clamp(intensity[i]); if (val < 3) continue;
\* ch = charLUT[clamp(Math.round(val))]; a space draws nothing
CellGlyph(intensity, charLUT, i) ==
  LET val == Clamp255(intensity.n[i], intensity.d)
  IN  IF ICmp(val, IMulInt(IFromNat(intensity.d), 3)) < 0 THEN NoGlyph
      ELSE LET ch == charLUT[Min(255, Max(0, RoundQuot(val, intensity.d))) + 1]
           IN  IF ch = " " THEN NoGlyph ELSE ch

\* the grid of renderAsciiLayer: cellW = baseAdvance + charSpacing * scale,
\* cellH = scaledFontSize * 1.2, cols and rows rounded down
LayerCols(layer, outW) == outW \div (GlyphW + layer.charSpacing)

LayerRows(outH) == outH \div GlyphH

\* the glyph fillText is called with at every cell, NoGlyph where it is not
LayerCells(intensity, layer, raster) ==
  With(buildCharLUT(layer.ramp, raster, GlyphW * GlyphH), LAMBDA charLUT :
    Stored([i \in 1..Len(intensity.n) |-> CellGlyph(intensity, charLUT, i)]))

\* the intensity of a layer whose grid has no column or no row: the early
\* return comes before any is computed
NoIntensity == [d |-> <<1>>, n |-> << >>, raw |-> [d |-> <<1>>, n |-> << >>],
                post |-> [d |-> <<1>>, n |-> << >>],
                cut |-> [d |-> <<1>>, n |-> << >>]]

\* the canvas renderAsciiLayer returns: transparent but where a glyph paints,
\* in layer.color or, in colour mode, in the colour of the resampled source;
\* cells records the fillText calls
renderAsciiLayer(adjusted, layer, outW, outH, raster, colorSource) ==
  LET cols  == LayerCols(layer, outW)
      rows  == LayerRows(outH)
      cellW == GlyphW + layer.charSpacing
      Sampled == IF layer.colorMode /\ cols > 0 /\ rows > 0
                 THEN resizeCanvas(colorSource, cols, rows).px ELSE << >>
  IN  With(IF cols <= 0 \/ rows <= 0 THEN NoIntensity
           ELSE LayerIntensity(adjusted, layer, cols, rows), LAMBDA intensity :
      With(LayerCells(intensity, layer, raster), LAMBDA cells :
       With(Sampled, LAMBDA colorData :
      [w |-> outW, h |-> outH, cells |-> cells, raw |-> intensity.raw,
       post |-> intensity.post,
       cut |-> intensity.cut, used |-> [d |-> intensity.d, n |-> intensity.n],
       px |-> Stored([p \in 1..(outW * outH) |->
                 LET x == (p - 1) % outW
                     y == (p - 1) \div outW
                     c == x \div cellW
                     r == y \div GlyphH
                     i == r * cols + c + 1
                     k == (y % GlyphH) * GlyphW + (x % cellW)
                 IN  IF /\ c < cols /\ r < rows /\ x % cellW < GlyphW
                        /\ cells[i] # NoGlyph /\ k < raster[cells[i]]
                     THEN LET fill == IF layer.colorMode THEN colorData[i] ELSE layer.color
                          IN  <<fill[1], fill[2], fill[3], 255>>
                     ELSE <<0, 0, 0, 0>>])])))

\* rows = Math.round(cols * aspect * 0.5)
TextRows(source, cols) == RoundDiv(cols * source.h, 2 * source.w)

\* a cell that keeps the glyph it has, whatever a later layer chooses
TextKeep(old, ch) == IF old # " " THEN old ELSE IF ch # NoGlyph THEN ch ELSE old

\* if (ch !== ' ') grid[r][c] = ch, for a cell that holds old
TextWrite(old, ch) == IF ch # NoGlyph THEN ch ELSE old

\* the layer loop of renderAsciiText from layer k on: enabled layers write
\* their glyphs over the grid, in list order
RECURSIVE TextGrid(_, _, _, _, _, _, _)
TextGrid(grid, adjusted, layers, cols, rows, raster12, k) ==
  IF k > Len(layers) THEN grid
  ELSE IF ~layers[k].enabled
       THEN TextGrid(grid, adjusted, layers, cols, rows, raster12, k + 1)
       ELSE With(LayerIntensity(adjusted, layers[k], cols, rows), LAMBDA intensity :
              With(buildCharLUT(layers[k].ramp, raster12, GlyphW * GlyphH),
                   LAMBDA charLUT :
                With(Stored([i \in 1..(cols * rows) |->
                               TextWrite(grid[i], CellGlyph(intensity, charLUT, i))]),
                     LAMBDA next :
                  TextGrid(next, adjusted, layers, cols, rows, raster12, k + 1))))

\* getGreyscale on a canvas without a column or without a row:
\* getImageData(0, 0, width, height) throws IndexSizeError when either is 0
GreyscaleThrows(w, h) == w <= 0 \/ h <= 0

\* the grid renderAsciiText joins into lines, row by row; raised when the
\* call ends in an exception, which the first enabled layer meets in
\* getGreyscale when the grid has no column or no row
renderAsciiText(sourceImage, layers, settings, cols, raster12) ==
  LET rows == TextRows(sourceImage, cols)
  IN  IF GreyscaleThrows(cols, rows) /\ \E k \in 1..Len(layers) : layers[k].enabled
      THEN [cols |-> cols, rows |-> rows, grid |-> << >>, raised |-> TRUE]
      ELSE With(createAdjustedCanvas(sourceImage, settings), LAMBDA adjusted :
             [cols |-> cols, rows |-> rows, raised |-> FALSE,
              grid |-> TextGrid(Stored([i \in 1..(cols * rows) |-> " "]), adjusted,
                                layers, cols, rows, raster12, 1)])

\* defaultSettings(), without the background colour
DefaultSettings ==
  [contrast |-> 100, brightness |-> 0, gamma |-> 100, invert |-> FALSE,
   highPassRadius |-> 0, blackPoint |-> 0, whitePoint |-> 255, blur |-> 0,
   sharpen |-> 0, posterize |-> 0]

\* defaultLayer(), with the ramp "@ "
PlainLayer ==
  [ramp |-> <<"@", " ">>, algorithm |-> "brightness", dithering |-> "none",
   opacity |-> 20, blendMode |-> "darken", enabled |-> TRUE, invert |-> FALSE,
   contrast |-> 100, threshold |-> 5, edgeSensitivity |-> 100, charSpacing |-> 0,
   color |-> Black, colorMode |-> FALSE, renderMode |-> "dark-on-light"]

\* what the layer panel is set to: the defaults; a ramp out of density order
\* with a high cutoff on a light-on-dark layer; an inverted layer with no
\* cutoff; an inverted single-glyph layer
LayerPresets ==
  { PlainLayer,
    [PlainLayer EXCEPT !.ramp = <<"#", ".", "@">>, !.contrast = 200, !.threshold = 128,
                       !.renderMode = "light-on-dark", !.edgeSensitivity = 200],
    [PlainLayer EXCEPT !.ramp = <<" ", ".", "#">>, !.contrast = 50, !.threshold = 0,
                       !.invert = TRUE],
    [PlainLayer EXCEPT !.ramp = <<"@">>, !.threshold = 100, !.invert = TRUE,
                       !.contrast = 80, !.renderMode = "light-on-dark",
                       !.charSpacing = 1] }

RenderLayers ==
  { [p EXCEPT !.algorithm = a, !.dithering = d] :
      p \in LayerPresets, a \in Algorithms, d \in DitherModes }

\* greys that put cells just below (252, 253), at (250) and above the default
\* cutoff, and at the cutoff of the inverted preset (155)
GreyMix == << <<250, 250, 250>>, Black, <<252, 252, 252>>, <<155, 155, 155>>, White,
              <<128, 128, 128>>, <<253, 253, 253>>, <<60, 60, 60>>, <<200, 200, 200>> >>

RenderImages ==
  { Image(1, 1, <<Black>>), Image(MaxCols, MaxRows, <<Black>>),
    Image(MaxCols, MaxRows, <<White>>), Image(MaxCols, MaxRows, GreyMix),
    Image(2, 3, << <<255, 0, 0>>, <<10, 200, 30>>, White, <<0, 0, 255>> >>) }

\* the settings and the font (at the layer's size, at size 12) of a session
RenderSessions ==
  { [settings |-> DefaultSettings, raster |-> Raster(5, 3, 1), raster12 |-> Raster(5, 3, 1)],
    [settings |-> DefaultSettings, raster |-> Raster(0, 0, 0), raster12 |-> Raster(3, 2, 0)],
    [settings |-> [DefaultSettings EXCEPT !.contrast = 150, !.posterize = 4,
                                          !.invert = TRUE],
     raster |-> Raster(3, 2, 0), raster12 |-> Raster(4, 4, 4)] }

\* a strip, wider than high
StripImage == Image(MaxCols, 1, GreyMix)

\* the renders of a session: the images on a grid of one cell and on the
\* largest grid; and, for the default layer plain, dithered and disabled,
\* the strip on grids without a column or without a row and on one cell
RenderCases ==
  {<<source, layer, grid>> :
      source \in RenderImages, layer \in RenderLayers,
      grid \in {<<1, 1>>, <<MaxCols, MaxRows>>}}
  \cup
  {<<StripImage, layer, grid>> :
      layer \in {PlainLayer, [PlainLayer EXCEPT !.dithering = "floyd-steinberg"],
                 [PlainLayer EXCEPT !.enabled = FALSE]},
      grid \in {<<0, 1>>, <<1, 0>>, <<0, 0>>, <<1, 1>>}}

RenderInit ==
  /\ dither = Idle /\ lut = Idle /\ tone = Idle /\ comp = Idle /\ auto = Idle
  /\ cache = Idle /\ app = Idle
  /\ \E case \in RenderCases, session \in RenderSessions :
     \E source \in {case[1]}, layer \in {case[2]}, cols \in {case[3][1]},
        rows \in {case[3][2]} :
       render = [pass |-> 1, source |-> source, layer |-> layer,
                 settings |-> session.settings, raster |-> session.raster,
                 raster12 |-> session.raster12,
                 outW |-> cols * (GlyphW + layer.charSpacing) + 1,
                 outH |-> rows * GlyphH, textCols |-> cols,
                 canvasDone |-> FALSE, textDone |-> FALSE,
                 raw |-> Idle, post |-> Idle, cut |-> Idle, used |-> Idle,
                 canvas |-> Idle,
                 text |-> Idle]

\* compositeAll's preparation and one renderAsciiLayer call
RenderCanvas ==
  /\ render.pass = 1 /\ ~render.canvasDone
  /\ \E adjusted \in {createAdjustedCanvas(render.source, render.settings)} :
       \E canvas \in {renderAsciiLayer(adjusted, render.layer, render.outW,
                                       render.outH, render.raster, render.source)} :
         render' = [render EXCEPT
                      !.canvasDone = TRUE,
                      !.raw = canvas.raw,
                      !.post = canvas.post,
                      !.cut = canvas.cut,
                      !.used = canvas.used,
                      !.canvas = [w |-> canvas.w, h |-> canvas.h,
                                  cells |-> canvas.cells, px |-> canvas.px]]
  /\ UNCHANGED <<dither, lut, tone, comp, auto, cache, app>>

\* renderAsciiText for the one layer
RenderText ==
  /\ render.pass = 1 /\ render.canvasDone /\ ~render.textDone
  /\ render' = [render EXCEPT
                  !.textDone = TRUE,
                  !.text = renderAsciiText(render.source, <<render.layer>>,
                                           render.settings, render.textCols,
                                           render.raster12)]
  /\ UNCHANGED <<dither, lut, tone, comp, auto, cache, app>>

RenderNext == RenderCanvas \/ RenderText

SpecRender == RenderInit /\ [][RenderNext]_vars

CanvasDone == render.pass = 1 /\ render.canvasDone

TextDone == render.pass = 1 /\ render.textDone

\* post[i] compared with layer.threshold: -1 below, 0 at, 1 above
PostAgainstThreshold(i) ==
  ICmp(render.post.n[i], IMulInt(IFromNat(render.post.d), render.layer.threshold))

\* the pixels of the canvas that lie in cell i (1-based, row by row)
CellPixelsOf(i) ==
  LET cellW == GlyphW + render.layer.charSpacing
      cols  == LayerCols(render.layer, render.outW)
  IN  {p \in 1..(render.outW * render.outH) :
         /\ ((p - 1) % render.outW) \div cellW = (i - 1) % cols
         /\ ((p - 1) \div render.outW) \div GlyphH = (i - 1) \div cols}

\* C3: for every layer, intensity algorithm and dithering mode, a cell whose
\* intensity after the contrast and invert steps is strictly below
\* layer.threshold has no glyph drawn at it (no fillText call, no painted
\* pixel), and a cell whose intensity equals layer.threshold exactly keeps
\* its (clamped) value through the cutoff.
C3_ThresholdCutoff ==
  CanvasDone =>
    \A post \in {render.post} : \A cut \in {render.cut} : \A canvas \in {render.canvas} :
      \A i \in 1..Len(post.n) :
        /\ PostAgainstThreshold(i) < 0 =>
             /\ canvas.cells[i] = NoGlyph
             /\ \A p \in CellPixelsOf(i) : canvas.px[p] = <<0, 0, 0, 0>>
        /\ PostAgainstThreshold(i) = 0 =>
             IMulNat(cut.n[i], post.d) = IMulNat(Clamp255(post.n[i], post.d), cut.d)

\* a dithered render in which one cell is below the threshold though bright
\* enough to be drawn without it, another is exactly at a non-zero
\* threshold, and a third got its glyph
C3_Witness ==
  /\ CanvasDone
  /\ render.layer.dithering # "none"
  /\ render.layer.threshold > 0
  /\ \E i \in 1..Len(render.post.n) :
       /\ PostAgainstThreshold(i) < 0
       /\ ICmp(render.post.n[i], IMulInt(IFromNat(render.post.d), 3)) >= 0
  /\ \E i \in 1..Len(render.post.n) : PostAgainstThreshold(i) = 0
  /\ \E i \in 1..Len(render.canvas.cells) : render.canvas.cells[i] # NoGlyph

\* the image has the one colour everywhere
Uniform(image, colour) == \A p \in 1..Len(image.px) : image.px[p] = colour

\* C7: a pure black image under default global settings and the one enabled
\* layer with algorithm brightness, ramp "@ ", contrast 100, threshold 5,
\* invert off, dark-on-light and no dithering gets "@" in every cell of the
\* grid, whatever the grid size, in the canvas render and in the text.
C7_BlackIsDensest ==
  (/\ render.pass = 1 /\ Uniform(render.source, Black)
   /\ render.settings = DefaultSettings /\ render.layer = PlainLayer) =>
     /\ render.canvasDone =>
          /\ Len(render.canvas.cells) = LayerCols(render.layer, render.outW)
                                        * LayerRows(render.outH)
          /\ \A i \in 1..Len(render.canvas.cells) : render.canvas.cells[i] = "@"
     /\ render.textDone =>
          \A i \in 1..Len(render.text.grid) : render.text.grid[i] = "@"

\* the black image has been rendered on the largest grid and as text
C7_Witness ==
  /\ CanvasDone /\ TextDone
  /\ Uniform(render.source, Black)
  /\ render.settings = DefaultSettings /\ render.layer = PlainLayer
  /\ Len(render.canvas.cells) = MaxCols * MaxRows
  /\ Len(render.text.grid) > 1

\* C8: a pure white image under default global settings and the one enabled
\* layer with algorithm brightness, ramp "@ ", contrast 100, threshold 5,
\* invert off and dark-on-light (any dithering) is blank in every cell: no
\* glyph is drawn, no pixel painted, and the text has a space at the cell.
C8_WhiteIsBlank ==
  (/\ render.pass = 1 /\ Uniform(render.source, White)
   /\ render.settings = DefaultSettings
   /\ render.layer = [PlainLayer EXCEPT !.dithering = render.layer.dithering]) =>
     /\ render.canvasDone =>
          /\ \A i \in 1..Len(render.canvas.cells) : render.canvas.cells[i] = NoGlyph
          /\ \A p \in 1..Len(render.canvas.px) : render.canvas.px[p] = <<0, 0, 0, 0>>
     /\ render.textDone =>
          \A i \in 1..Len(render.text.grid) : render.text.grid[i] = " "

\* the white image has been rendered, dithered, on the largest grid and as text
C8_Witness ==
  /\ CanvasDone /\ TextDone
  /\ Uniform(render.source, White)
  /\ render.settings = DefaultSettings
  /\ render.layer = [PlainLayer EXCEPT !.dithering = "floyd-steinberg"]
  /\ Len(render.canvas.cells) = MaxCols * MaxRows
  /\ Len(render.text.grid) > 1

-----------------------------------------------------------------------------
(* Compositing (compositeAll).  The output surface is a canvas of           *)
(* <<r, g, b, a>> bytes.  layer.opacity is kept in twentieths, the step of  *)
(* the opacity slider; a layer canvas is either opaque or clear at a pixel. *)
(* drawImage composites source-over with the blend function of the mode,    *)
(* and the surface stores the result rounded to bytes.  comp.ops logs the   *)
(* drawing calls made on the output surface: <<"fill", 0>> for fillRect,    *)
(* <<"draw", k>> for the drawImage of layer k.                              *)

OpacitySteps == 20

BlendModes == {"darken", "multiply", "source-over", "overlay", "screen", "color-burn",
               "hard-light"}

\* multiply and screen of two channels, as <<numerator, denominator>> in bytes
BlendMultiply(cb, cs) == <<cb * cs, 255>>

BlendScreen(cb, cs) == <<255 * (cb + cs) - cb * cs, 255>>

BlendHardLight(cb, cs) ==
  IF 2 * cs <= 255 THEN BlendMultiply(cb, 2 * cs) ELSE BlendScreen(cb, 2 * cs - 255)

\* the blend function B(cb, cs) of globalCompositeOperation = mode; a value
\* the canvas does not know leaves source-over in place
Blend(mode, cb, cs) ==
  CASE mode = "multiply"   -> BlendMultiply(cb, cs)
    [] mode = "screen"     -> BlendScreen(cb, cs)
    [] mode = "overlay"    -> BlendHardLight(cs, cb)
    [] mode = "darken"     -> <<Min(cb, cs), 1>>
    [] mode = "hard-light" -> BlendHardLight(cb, cs)
    [] mode = "color-burn" ->
         IF cb = 255 THEN <<255, 1>>
         ELSE IF cs = 0 THEN <<0, 1>>
         ELSE <<255 * (cs - Min(cs, 255 - cb)), cs>>
    [] OTHER               -> <<cs, 1>>

\* one pixel of drawImage: src over dst with source alpha s / OpacitySteps;
\* co = as (1 - ab) Cs + as ab B(Cb, Cs) + (1 - as) ab Cb, ao = as + ab (1 - as)
DrawPixel(dst, src, s, mode) ==
  LET ab  == dst[4]
      A   == 255 * s + ab * (OpacitySteps - s)
      ch(k) == LET B  == Blend(mode, dst[k], src[k])
                   bn == B[1]
                   bd == B[2]
               IN  RoundDiv(s * (255 - ab) * src[k] * bd + s * ab * bn
                              + (OpacitySteps - s) * ab * dst[k] * bd,
                            bd * A)
  IN  IF A = 0 THEN <<0, 0, 0, 0>>
      ELSE <<ch(1), ch(2), ch(3), RoundDiv(A, OpacitySteps)>>

\* a drawImage that leaves globalAlpha at 1
drawImageOpaque(canvas, image, opacity, blendMode) ==
  [w |-> canvas.w, h |-> canvas.h,
   px |-> Stored([p \in 1..Len(canvas.px) |->
                    DrawPixel(canvas.px[p], image.px[p],
                              (image.px[p][4] * OpacitySteps) \div 255, blendMode)])]

\* ctx.globalAlpha = layer.opacity; ctx.globalCompositeOperation = layer.blendMode;
\* ctx.drawImage(layerCanvas, 0, 0)
drawImage(canvas, image, opacity, blendMode) ==
  [w |-> canvas.w, h |-> canvas.h,
   px |-> Stored([p \in 1..Len(canvas.px) |->
                    DrawPixel(canvas.px[p], image.px[p],
                              (image.px[p][4] * opacity) \div 255, blendMode)])]

\* document.createElement('canvas') of the output size: transparent black
createCanvas(outW, outH) ==
  [w |-> outW, h |-> outH, px |-> Stored([p \in 1..(outW * outH) |-> <<0, 0, 0, 0>>])]

\* ctx.fillRect(0, 0, outW, outH) in an opaque fillStyle
fillRect(canvas, colour) ==
  [w |-> canvas.w, h |-> canvas.h,
   px |-> Stored([p \in 1..Len(canvas.px) |-> <<colour[1], colour[2], colour[3], 255>>])]

\* the surface before the layer loop
Background(settings, outW, outH) ==
  IF settings.backgroundColor # "transparent"
  THEN fillRect(createCanvas(outW, outH), settings.backgroundColor)
  ELSE createCanvas(outW, outH)

\* a loop that skips no layer
SkippedNever(layer) == FALSE

\* if (!layer.enabled) continue
Skipped(layer) == ~layer.enabled

\* one iteration of the layer loop on the surface
CompositeLayer(result, adjusted, layer, outW, outH, raster, srcCanvas) ==
  IF Skipped(layer) THEN result
  ELSE With(renderAsciiLayer(adjusted, layer, outW, outH, raster, srcCanvas),
            LAMBDA layerCanvas :
              drawImage(result, layerCanvas, layer.opacity, layer.blendMode))

\* the layer loop from layer k on
RECURSIVE CompositeFrom(_, _, _, _, _, _, _, _)
CompositeFrom(result, adjusted, layers, outW, outH, raster, srcCanvas, k) ==
  IF k > Len(layers) THEN result
  ELSE With(CompositeLayer(result, adjusted, layers[k], outW, outH, raster, srcCanvas),
            LAMBDA next :
              CompositeFrom(next, adjusted, layers, outW, outH, raster, srcCanvas, k + 1))

\* compositeAll(sourceImage, layers, settings, outW, outH): the pixel buffer
compositeAll(sourceImage, layers, settings, outW, outH, raster) ==
  With(createAdjustedCanvas(sourceImage, settings), LAMBDA adjusted :
    With(Background(settings, outW, outH), LAMBDA result :
      CompositeFrom(result, adjusted, layers, outW, outH, raster, sourceImage, 1).px))

\* defaultSettings() with a background
SettingsOn(backgroundColor) ==
  [contrast |-> 100, brightness |-> 0, gamma |-> 100, invert |-> FALSE,
   highPassRadius |-> 0, blackPoint |-> 0, whitePoint |-> 255, blur |-> 0,
   sharpen |-> 0, posterize |-> 0, backgroundColor |-> backgroundColor]

Backgrounds == {"transparent", White, <<240, 200, 60>>}

\* a red layer of "@" on the default grid, and a blue layer on a wider grid
\* that takes the source's colours
RedInk == [PlainLayer EXCEPT !.color = <<200, 30, 30>>]

BlueInk == [PlainLayer EXCEPT !.color = <<20, 90, 160>>, !.ramp = <<"#", "@", " ">>,
                              !.charSpacing = 1, !.dithering = "ordered"]

\* what the first layer of a stack is set to
FirstLayers ==
  { [RedInk EXCEPT !.blendMode = b, !.opacity = o, !.enabled = e] :
      b \in {"darken", "source-over"}, o \in {OpacitySteps, OpacitySteps \div 2},
      e \in BOOLEAN }

\* what a layer above it is set to: every blend mode at every opacity
TopLayers ==
  { [ink EXCEPT !.blendMode = b, !.opacity = o] :
      ink \in {BlueInk}, b \in BlendModes, o \in {0, OpacitySteps \div 2, OpacitySteps} }
  \cup { [BlueInk EXCEPT !.enabled = FALSE],
         [RedInk EXCEPT !.opacity = 0, !.blendMode = "multiply", !.colorMode = TRUE] }

\* the stacks of one, two and three layers
LayerStacks ==
  { <<a>> : a \in FirstLayers }
  \cup { <<a, b>> : a \in FirstLayers, b \in TopLayers }
  \cup { <<a, b, c>> : a \in {RedInk, [RedInk EXCEPT !.enabled = FALSE]},
                       b \in {[BlueInk EXCEPT !.enabled = FALSE],
                              [BlueInk EXCEPT !.blendMode = "multiply"]},
                       c \in {[RedInk EXCEPT !.blendMode = "screen", !.opacity = 10],
                              [BlueInk EXCEPT !.opacity = 0],
                              [RedInk EXCEPT !.enabled = FALSE]} }

CompImages ==
  { Image(2, 2, <<Black, <<40, 40, 40>>, White, <<128, 128, 128>> >>),
    Image(3, 1, << <<255, 0, 0>>, <<10, 20, 30>>, <<0, 0, 255>> >>) }

CompInit ==
  /\ dither = Idle /\ lut = Idle /\ tone = Idle /\ render = Idle /\ auto = Idle
  /\ cache = Idle /\ app = Idle
  /\ \E source \in CompImages, layers \in LayerStacks, bg \in Backgrounds :
       comp = [pass |-> 1, pc |-> "start", source |-> source, layers |-> layers,
               settings |-> SettingsOn(bg), outW |-> 2 * GlyphW + 2, outH |-> 2 * GlyphH,
               raster |-> Raster(5, 3, 1), adjusted |-> Idle, result |-> Idle,
               k |-> 1, ops |-> << >>]

\* compositeAll up to the layer loop: the adjusted canvas, the output
\* surface and its background
CompStart ==
  /\ comp.pass = 1 /\ comp.pc = "start"
  /\ comp' = [comp EXCEPT
                !.pc = "layers",
                !.adjusted = createAdjustedCanvas(comp.source, comp.settings),
                !.result = Background(comp.settings, comp.outW, comp.outH),
                !.ops = IF comp.settings.backgroundColor # "transparent"
                        THEN << <<"fill", 0>> >> ELSE << >>]
  /\ UNCHANGED <<dither, lut, tone, render, auto, cache, app>>

\* an iteration of the layer loop that continues at once
CompSkip ==
  /\ comp.pass = 1 /\ comp.pc = "layers" /\ comp.k <= Len(comp.layers)
  /\ Skipped(comp.layers[comp.k])
  /\ comp' = [comp EXCEPT !.k = @ + 1]
  /\ UNCHANGED <<dither, lut, tone, render, auto, cache, app>>

\* an iteration of the layer loop that renders the layer and draws it
CompDraw ==
  /\ comp.pass = 1 /\ comp.pc = "layers" /\ comp.k <= Len(comp.layers)
  /\ ~Skipped(comp.layers[comp.k])
  /\ comp' = [comp EXCEPT
                !.k = @ + 1,
                !.result = CompositeLayer(comp.result, comp.adjusted, comp.layers[comp.k],
                                          comp.outW, comp.outH, comp.raster, comp.source),
                !.ops = Append(@, <<"draw", comp.k>>)]
  /\ UNCHANGED <<dither, lut, tone, render, auto, cache, app>>

\* return result
CompReturn ==
  /\ comp.pass = 1 /\ comp.pc = "layers" /\ comp.k > Len(comp.layers)
  /\ comp' = [comp EXCEPT !.pc = "done"]
  /\ UNCHANGED <<dither, lut, tone, render, auto, cache, app>>

CompNext == CompStart \/ CompSkip \/ CompDraw \/ CompReturn

SpecComposite == CompInit /\ [][CompNext]_vars

CompDone == comp.pass = 1 /\ comp.pc = "done"

\* C5: with a second layer of opacity 0 (any of the blend modes, enabled or
\* not, whatever else it is set to), compositeAll on [L1, L2] returns the
\* same pixel buffer as compositeAll on [L1] alone, for every first layer
\* and every background.
C5_TransparentLayerIsNoOp ==
  (CompDone /\ Len(comp.layers) = 2 /\ comp.layers[2].opacity = 0) =>
     comp.result.px = compositeAll(comp.source, <<comp.layers[1]>>, comp.settings,
                                   comp.outW, comp.outH, comp.raster)

\* a stack has been composited whose enabled second layer, at opacity 0 and
\* blend mode color-burn, rendered glyphs over an enabled first layer
C5_Witness ==
  /\ CompDone /\ Len(comp.layers) = 2
  /\ comp.layers[1].enabled /\ comp.layers[2].enabled
  /\ comp.layers[2].opacity = 0 /\ comp.layers[2].blendMode = "color-burn"
  /\ comp.settings.backgroundColor # "transparent"
  /\ \E p \in 1..Len(comp.result.px) :
       /\ renderAsciiLayer(comp.adjusted, comp.layers[2], comp.outW, comp.outH,
                           comp.raster, comp.source).px[p][4] = 255
       /\ renderAsciiLayer(comp.adjusted, comp.layers[1], comp.outW, comp.outH,
                           comp.raster, comp.source).px[p][4] = 255

\* the drawing calls compositeAll is to make: the fill when the background is
\* not transparent, then one drawImage per enabled layer, in list order
RECURSIVE ExpectedDraws(_, _)
ExpectedDraws(layers, k) ==
  IF k > Len(layers) THEN << >>
  ELSE (IF layers[k].enabled THEN << <<"draw", k>> >> ELSE << >>)
         \o ExpectedDraws(layers, k + 1)

ExpectedOps(layers, backgroundColor) ==
  (IF backgroundColor # "transparent" THEN << <<"fill", 0>> >> ELSE << >>)
    \o ExpectedDraws(layers, 1)

\* the enabled layers of a stack, in order
RECURSIVE EnabledOnly(_)
EnabledOnly(layers) ==
  IF layers = << >> THEN << >>
  ELSE (IF layers[1].enabled THEN <<layers[1]>> ELSE << >>)
         \o EnabledOnly(SubSeq(layers, 2, Len(layers)))

\* C6: compositeAll fills the background first (when it is not transparent)
\* and then draws exactly the enabled layers, each exactly once, in the order
\* of the layer list, the last enabled layer last; a disabled layer
\* contributes nothing to the output.
C6_BackgroundThenEnabledLayersInOrder ==
  comp.pass = 1 =>
    \A expected \in {ExpectedOps(comp.layers, comp.settings.backgroundColor)} :
      /\ Len(comp.ops) <= Len(expected)
      /\ comp.ops = SubSeq(expected, 1, Len(comp.ops))
      /\ comp.pc = "done" =>
           /\ comp.ops = expected
           /\ comp.result.px = compositeAll(comp.source, EnabledOnly(comp.layers),
                                            comp.settings, comp.outW, comp.outH,
                                            comp.raster)

\* a stack of an enabled, a disabled and an enabled layer has been
\* composited on a filled background
C6_Witness ==
  /\ CompDone /\ Len(comp.layers) = 3
  /\ comp.layers[1].enabled /\ ~comp.layers[2].enabled /\ comp.layers[3].enabled
  /\ comp.ops = << <<"fill", 0>>, <<"draw", 1>>, <<"draw", 3>> >>

-----------------------------------------------------------------------------
(* densityCache.  The cache is module state: it outlives the render calls, *)
(* which reach it through buildCharLUT.  The host's rasterizer is a        *)
(* function of the font family and the font size.                          *)

\* the UTF-16 code unit of a glyph: the order of Array.prototype.sort()
CharCode(ch) == CASE ch = " " -> 32 [] ch = "#" -> 35 [] ch = "." -> 46
                  [] ch = "@" -> 64

\* chars.sort(): by code unit
RECURSIVE SortByCode(_)
SortByCode(chars) ==
  IF chars = << >> THEN << >>
  ELSE LET init == SortByCode(SubSeq(chars, 1, Len(chars) - 1))
           ch   == chars[Len(chars)]
           k    == Cardinality({j \in 1..Len(init) : CharCode(init[j]) <= CharCode(ch)})
       IN  SubSeq(init, 1, k) \o <<ch>> \o SubSeq(init, k + 1, Len(init))

\* chars.join('')
RECURSIVE Join(_)
Join(chars) == IF chars = << >> THEN "" ELSE chars[1] \o Join(Tail(chars))

\* the unique glyphs left in ramp order
UniqueInRampOrder(chars) == UniqueChars(chars)

\* [...new Set(chars)].sort()
SortedUnique(chars) == SortByCode(UniqueChars(chars))

\* a key that leaves out the font size
KeyWithoutSize(fontFamily, fontSize, uniqueChars) == fontFamily \o "|" \o uniqueChars

\* `${fontFamily}|${fontSize}|${uniqueChars}`
cacheKey(fontFamily, fontSize, uniqueChars) ==
  fontFamily \o "|" \o ToString(fontSize) \o "|" \o uniqueChars

FONT_OPTIONS ==
  {"Courier New", "Consolas", "Monaco", "Menlo", "Lucida Console", "monospace"}

\* what the host paints for a font: the families differ, and so do the sizes
FontRaster(fontFamily, fontSize) ==
  CASE fontFamily = "Courier New" /\ fontSize >= 12 -> Raster(5, 3, 1)
    [] fontFamily = "Courier New"                   -> Raster(3, 2, 0)
    [] fontSize >= 12                               -> Raster(4, 5, 2)
    [] OTHER                                        -> Raster(2, 4, 1)

\* measureCharDensities(chars, fontFamily, fontSize) on the cache store: the
\* cache after the call, the map returned, and whether the glyphs were
\* measured
CachedDensities(store, chars, fontFamily, fontSize) ==
  LET uniqueChars == SortedUnique(chars)
      key         == cacheKey(fontFamily, fontSize, Join(uniqueChars))
  IN  IF key \in DOMAIN store
      THEN [store |-> store, key |-> key, densities |-> store[key], measured |-> FALSE]
      ELSE LET densities == measureCharDensities(uniqueChars,
                                                 FontRaster(fontFamily, fontSize))
           IN  [store |-> (key :> densities) @@ store, key |-> key,
                densities |-> densities, measured |-> TRUE]

\* one render call on the cache: the per-cell intensities and glyphs of the
\* layer, and the cache it leaves
RenderCall(store, input) ==
  With(createAdjustedCanvas(input.image, DefaultSettings), LAMBDA adjusted :
    With(LayerIntensity(adjusted, input.layer, input.cols, input.rows),
         LAMBDA intensity :
      With(CachedDensities(store, input.layer.ramp, input.layer.fontFamily,
                           input.layer.fontSize), LAMBDA got :
        With(LUTFromDensities(input.layer.ramp, got.densities, CellPixels),
             LAMBDA charLUT :
          [store |-> got.store, key |-> got.key, measured |-> got.measured,
           densities |-> got.densities,
           intensity |-> [d |-> intensity.d, n |-> intensity.n],
           cells |-> Stored([i \in 1..Len(intensity.n) |->
                               CellGlyph(intensity, charLUT, i)])]))))

\* a session makes up to MaxCalls render calls
MaxCalls == 3

FontLayer(ramp, algorithm, fontFamily, fontSize) ==
  [fontFamily |-> fontFamily, fontSize |-> fontSize]
    @@ [PlainLayer EXCEPT !.ramp = ramp, !.algorithm = algorithm]

\* the calls a session draws from: one glyph set as three ramps (in two
\* orders, with a glyph repeated), in one family at two sizes and in another
\* family; another glyph set; stippled and by brightness
CacheInputs ==
  { [image |-> Image(MaxCols, MaxRows, GreyMix), cols |-> MaxCols, rows |-> MaxRows,
     layer |-> FontLayer(c[1], c[2], c[3], c[4])] :
      c \in { << <<"@", "#", " ">>, "stipple", "Courier New", 12 >>,
              << <<"#", " ", "@">>, "stipple", "Courier New", 12 >>,
              << <<"#", "@", "#", " ">>, "stipple", "Courier New", 12 >>,
              << <<"@", "#", " ">>, "stipple", "Courier New", 6 >>,
              << <<"@", "#", " ">>, "stipple", "monospace", 12 >>,
              << <<"@", ".", " ">>, "stipple", "Courier New", 12 >>,
              << <<"@", "#", " ">>, "brightness", "Courier New", 12 >>,
              << <<"#", "@", " ">>, "brightness", "monospace", 6 >> } }

CacheInit ==
  /\ dither = Idle /\ lut = Idle /\ tone = Idle /\ render = Idle /\ comp = Idle
  /\ auto = Idle /\ app = Idle
  /\ cache = [pass |-> 1, store |-> << >>, calls |-> << >>]

\* a render call: compositeAll or an exporter reaches buildCharLUT
CacheRender ==
  /\ cache.pass = 1 /\ Len(cache.calls) < MaxCalls
  /\ \E input \in CacheInputs :
       \E out \in {RenderCall(cache.store, input)} :
         cache' = [cache EXCEPT
                     !.store = out.store,
                     !.calls = Append(@, [input |-> input, key |-> out.key,
                                          measured |-> out.measured,
                                          densities |-> out.densities,
                                          intensity |-> out.intensity,
                                          cells |-> out.cells])]
  /\ UNCHANGED <<dither, lut, tone, render, comp, auto, app>>

CacheNext == CacheRender

SpecCache == CacheInit /\ [][CacheNext]_vars

\* C12: the pipeline is deterministic across calls: in any sequence of render
\* calls every call yields the per-cell intensities and glyphs that the same
\* call yields on an empty cache, so two calls with identical (image, layers,
\* settings, output dimensions) and the same glyph measurement agree whatever
\* ran in between; the stipple generator restarts from 42 in every call.
C12_DeterministicAcrossCalls ==
  cache.pass = 1 =>
    \A calls \in {cache.calls} :
      /\ \A i \in 1..Len(calls) :
           \A cold \in {RenderCall(<< >>, calls[i].input)} :
             /\ calls[i].cells = cold.cells
             /\ calls[i].intensity = cold.intensity
      /\ \A i, j \in 1..Len(calls) :
           calls[i].input = calls[j].input =>
             /\ calls[i].cells = calls[j].cells
             /\ calls[i].intensity = calls[j].intensity

\* a stippled call was repeated with a call of the same family and ramp at
\* another size in between; the repeat found the cache warm and drew glyphs
C12_Witness ==
  /\ cache.pass = 1 /\ Len(cache.calls) = 3
  /\ cache.calls[1].input = cache.calls[3].input
  /\ cache.calls[1].input.layer.algorithm = "stipple"
  /\ cache.calls[2].input.layer.fontSize # cache.calls[1].input.layer.fontSize
  /\ cache.calls[2].input.layer.fontFamily = cache.calls[1].input.layer.fontFamily
  /\ cache.calls[2].input.layer.ramp = cache.calls[1].input.layer.ramp
  /\ cache.calls[1].measured /\ ~cache.calls[3].measured
  /\ \E i \in 1..Len(cache.calls[3].cells) : cache.calls[3].cells[i] # NoGlyph
  /\ \E i \in 1..Len(cache.calls[3].cells) : cache.calls[3].cells[i] = NoGlyph

\* the key of the claim: the font family, the font size and the set of glyphs
GlyphSetKey(input) ==
  <<input.layer.fontFamily, input.layer.fontSize,
    {input.layer.ramp[j] : j \in 1..Len(input.layer.ramp)}>>

CanvasGridEmpty ==
  LayerCols(render.layer, render.outW) <= 0 \/ LayerRows(render.outH) <= 0

\* the text export has no column or no row
TextGridEmpty ==
  render.textCols <= 0 \/ TextRows(render.source, render.textCols) <= 0

\* C14: when an exporter's grid for a layer has fewer than one column or
\* fewer than one row, the exporter yields an empty render for the layer, no
\* glyph and no exception: renderAsciiLayer returns a canvas with nothing
\* drawn, renderAsciiText returns without raising and without a glyph.
C14_EmptyGridIsEmptyRender ==
  render.pass = 1 =>
    /\ (render.canvasDone /\ CanvasGridEmpty) =>
         /\ \A i \in 1..Len(render.canvas.cells) : render.canvas.cells[i] = NoGlyph
         /\ \A p \in 1..Len(render.canvas.px) : render.canvas.px[p] = <<0, 0, 0, 0>>
    /\ (render.textDone /\ TextGridEmpty) =>
         /\ ~render.text.raised
         /\ \A i \in 1..Len(render.text.grid) : render.text.grid[i] = " "

\* C15: a layer whose ramp is the zero-length string is handled as a ramp of
\* one space glyph: buildCharLUT completes without raising and its table
\* draws no glyph (every entry is the space).
C15_EmptyRampIsOneSpace ==
  (lut.pass = 2 /\ lut.ramp = << >>) =>
     /\ ~lut.raised
     /\ lut.table = buildCharLUT(<<" ">>, lut.raster, lut.totalPixels)

\* the glyphs of the ramp
RampGlyphs == {lut.ramp[j] : j \in 1..Len(lut.ramp)}

\* C16: when every glyph of the ramp has the same measured density,
\* buildCharLUT returns a table whose 256 entries are all the same single
\* glyph of the ramp; in every case each of the 256 entries is a glyph that
\* occurs in the ramp.
C16_EqualDensitiesGiveOneGlyph ==
  LUTBuilt =>
    \A table \in {lut.table} :
      /\ Len(table) = 256
      /\ \A i \in 1..256 : table[i] \in RampGlyphs
      /\ (\A a, b \in RampGlyphs : MeasuredDensity(a) = MeasuredDensity(b))
           => \E ch \in RampGlyphs : \A i \in 1..256 : table[i] = ch

\* a table has been built from three different glyphs, the space among them,
\* that the font gives the same density: it holds the ramp's first glyph
C16_Witness ==
  /\ LUTBuilt
  /\ Cardinality(RampGlyphs) = 3 /\ " " \in RampGlyphs
  /\ \A a, b \in RampGlyphs : MeasuredDensity(a) = MeasuredDensity(b)
  /\ lut.ramp[1] # " "
  /\ \A i \in 1..256 : lut.table[i] = lut.ramp[1]

-----------------------------------------------------------------------------
(* The text export of a stack of layers (renderAsciiText).                 *)

\* the longest layer list exported
MaxStack == 3

\* the layers of the stacks: the default layer; a light-on-dark layer of one
\* glyph with a high cutoff; an inverted, dithered layer that has a glyph at
\* every cell; a disabled layer that would have one at every cell
TextLayers ==
  { PlainLayer,
    [PlainLayer EXCEPT !.ramp = <<"#">>, !.renderMode = "light-on-dark",
                       !.threshold = 128, !.opacity = 100, !.blendMode = "multiply"],
    [PlainLayer EXCEPT !.ramp = <<".", "@">>, !.invert = TRUE, !.threshold = 0,
                       !.dithering = "floyd-steinberg", !.opacity = 50,
                       !.blendMode = "screen"],
    [PlainLayer EXCEPT !.ramp = <<".">>, !.threshold = 0, !.enabled = FALSE,
                       !.renderMode = "light-on-dark"] }

TextStacks == SeqsUpTo(TextLayers, MaxStack) \ {<< >>}

TextImages ==
  { Image(MaxCols, MaxRows, GreyMix),
    Image(MaxCols, MaxRows, <<Black, White, <<128, 128, 128>>, White>>) }

TextInit ==
  /\ dither = Idle /\ lut = Idle /\ tone = Idle /\ comp = Idle /\ auto = Idle
  /\ cache = Idle /\ app = Idle
  /\ \E source \in TextImages, layers \in TextStacks :
       render = [pass |-> 2, source |-> source, layers |-> layers,
                 settings |-> DefaultSettings, raster12 |-> Raster(5, 3, 1),
                 textCols |-> MaxCols, textDone |-> FALSE, text |-> Idle]

\* renderAsciiText for the layer list
TextExport ==
  /\ render.pass = 2 /\ ~render.textDone
  /\ render' = [render EXCEPT
                  !.textDone = TRUE,
                  !.text = renderAsciiText(render.source, render.layers,
                                           render.settings, render.textCols,
                                           render.raster12)]
  /\ UNCHANGED <<dither, lut, tone, comp, auto, cache, app>>

TextNext == TextExport

SpecText == TextInit /\ [][TextNext]_vars

StackExported == render.pass = 2 /\ render.textDone

\* the glyphs each layer of the list chooses on its own, were it enabled,
\* opaque and drawn normally: a space where it has no glyph
OwnGlyphs ==
  [k \in 1..Len(render.layers) |->
     renderAsciiText(render.source,
                     <<[render.layers[k] EXCEPT !.enabled = TRUE, !.opacity = 100,
                                                !.blendMode = "source-over"]>>,
                     render.settings, render.textCols, render.raster12).grid]

\* the enabled layers of the list that have a glyph at cell i
GlyphLayers(own, i) ==
  {k \in 1..Len(render.layers) : render.layers[k].enabled /\ own[k][i] # " "}

\* C17: in renderAsciiText the character at each cell is the glyph chosen
\* by the last enabled layer in list order that has a non-empty glyph there,
\* and a space when no enabled layer has one; disabled layers, opacity and
\* blend mode play no part.
C17_LastEnabledGlyphWins ==
  StackExported =>
    \A grid \in {render.text.grid}, own \in {OwnGlyphs} :
      /\ ~render.text.raised
      /\ Len(grid) = render.text.cols * render.text.rows
      /\ \A i \in 1..Len(grid) :
           grid[i] = IF GlyphLayers(own, i) = {} THEN " "
                     ELSE own[CHOOSE k \in GlyphLayers(own, i) :
                                \A j \in GlyphLayers(own, i) : j <= k][i]

\* three layers were exported: at some cell the first and the second both
\* have a glyph, not the same, and the text shows the second's; at some cell
\* only the first has one and the text shows it; the third is disabled and
\* would have had a glyph everywhere
C17_Witness ==
  /\ StackExported /\ Len(render.layers) = 3
  /\ render.layers[1].enabled /\ render.layers[2].enabled /\ ~render.layers[3].enabled
  /\ render.layers[1].opacity # render.layers[2].opacity
  /\ \E own \in {OwnGlyphs} :
       /\ \A i \in 1..Len(own[3]) : own[3][i] # " "
       /\ \E i \in 1..Len(own[1]) :
            /\ own[1][i] # " " /\ own[2][i] # " " /\ own[1][i] # own[2][i]
            /\ render.text.grid[i] = own[2][i]
       /\ \E i \in 1..Len(own[1]) :
            /\ own[1][i] # " " /\ own[2][i] = " "
            /\ render.text.grid[i] = own[1][i]

-----------------------------------------------------------------------------
(* The layer list of the application (App.tsx): the ramp of every layer    *)
(* as the controls of the layer panel set it.                              *)

\* the ramps the Char Ramp select offers, by name; a glyph outside ASCII is
\* written as u and the four hexadecimal digits of its code
RAMP_PRESETS ==
  ("Standard" :> "@%#*+=-:. ")
  @@ ("Detailed" :> "$@B%8&WM#*oahkbdpqwmZO0QLCJUYXzcvunxrjft/\\|()1{}[]?-_+~<>i!lI;:,\"^`'. ")
  @@ ("Simple" :> "#=-. ")
  @@ ("Dense" :> "@#MW&%*+=-:. ")
  @@ ("Minimal" :> "@. ")
  @@ ("Binary" :> "@ ")
  @@ ("Hatching" :> "#/|\\-. ")
  @@ ("Dots" :> "@o:. ")
  @@ ("Alphabetic" :> "MWBHAXYVTISJ. ")
  @@ ("Alphanumeric" :> "MW8B6H9A5X4V3T2IS1J. ")
  @@ ("Arrows & Chevrons" :> "u25C6u25C4u25BAu25B2u25BCu00ABu00BB><^v. ")
  @@ ("Code Page 437" :> "u2588u2593u2592u2591u256Cu2560u2563u2566u2569u2554u2557u255Au255Du2551u2550u2500u2502u253Cu2524u251Cu2534u252Cu250Cu2510u2514u2518u00B7. ")
  @@ ("Blocks & Shapes" :> "u2588u2593u2592u2591u25A0u25B0u2584u2580u258Cu2590u25CFu25CBu25AAu25AB. ")
  @@ ("Math & Symbols" :> "u2234u2261u2248u00B1u221Eu2211u220Fu221Au00D7u00F7u2206u03C0u2207u00B7. ")

\* the ramps of the layers of every built-in preset, in layer order
BUILT_IN_PRESETS ==
  ("Default" :> <<RAMP_PRESETS["Detailed"], RAMP_PRESETS["Standard"], RAMP_PRESETS["Dense"]>>)
  @@ ("Sketch" :> <<RAMP_PRESETS["Hatching"], "/|\\-. ">>)
  @@ ("Halftone" :> <<RAMP_PRESETS["Dots"]>>)
  @@ ("Matrix" :> <<"01 ">>)
  @@ ("Typewriter" :> <<RAMP_PRESETS["Standard"]>>)
  @@ ("Blueprint" :> <<RAMP_PRESETS["Dense"], RAMP_PRESETS["Simple"]>>)
  @@ ("Retro Terminal" :> <<RAMP_PRESETS["Code Page 437"]>>)
  @@ ("Neon" :> <<RAMP_PRESETS["Blocks & Shapes"], RAMP_PRESETS["Blocks & Shapes"]>>)
  @@ ("Stencil" :> <<RAMP_PRESETS["Alphabetic"]>>)
  @@ ("Mosaic" :> <<RAMP_PRESETS["Blocks & Shapes"]>>)
  @@ ("Math Art" :> <<RAMP_PRESETS["Math & Symbols"]>>)
  @@ ("High Contrast" :> <<RAMP_PRESETS["Binary"], "#. ">>)
  @@ ("Newspaper" :> <<RAMP_PRESETS["Dots"]>>)
  @@ ("Arrows" :> <<RAMP_PRESETS["Arrows & Chevrons"]>>)
  @@ ("Color Photo" :> <<RAMP_PRESETS["Detailed"], RAMP_PRESETS["Dense"]>>)

\* the longest layer list addLayer and duplicateLayer build
MaxLayers == 3

\* the number of operations of a session
MaxOps == 3

\* the ramp of defaultLayer()
DefaultRamp == "@%#*+=-:. "

\* what the ramp text field is edited to: emptied, or two ramps typed in
TextEdits == {"", "#.", "01"}

\* what the Char Ramp select is set to
SelectValues == DOMAIN RAMP_PRESETS \cup {"Custom"}

\* a text field that hands its value on as it is
ValueAsTyped(value) == value

\* e.target.value || ' '
ValueOrSpace(value) == IF value = "" THEN " " ELSE value

\* setLayers(ls => ls.map(l => l.id === id ? { ...l, ...patch } : l)), for
\* a patch of the ramp; the layer with the id is the k-th
updateLayer(ls, k, ramp) == [ls EXCEPT ![k] = [@ EXCEPT !.ramp = ramp]]

\* useState(BUILT_IN_PRESETS['Default'].layers)
AppInit ==
  /\ dither = Idle /\ lut = Idle /\ tone = Idle /\ render = Idle /\ comp = Idle
  /\ auto = Idle /\ cache = Idle
  /\ app = [pass |-> 1, ops |-> 0,
            layers |-> [k \in 1..Len(BUILT_IN_PRESETS["Default"]) |->
                          [ramp |-> BUILT_IN_PRESETS["Default"][k]]]]

AppIdle == <<dither, lut, tone, render, comp, auto, cache>>

\* one more operation of the session
AppStep(ls) ==
  /\ app.pass = 1 /\ app.ops < MaxOps
  /\ app' = [app EXCEPT !.ops = @ + 1, !.layers = ls]
  /\ UNCHANGED AppIdle

addLayer ==
  /\ app.pass = 1 /\ Len(app.layers) < MaxLayers
  /\ AppStep(Append(app.layers, [ramp |-> DefaultRamp]))

duplicateLayer(k) ==
  /\ app.pass = 1 /\ Len(app.layers) < MaxLayers
  /\ AppStep(Append(app.layers, app.layers[k]))

removeLayer(k) == AppStep([i \in 1..(Len(app.layers) - 1) |->
                             IF i < k THEN app.layers[i] ELSE app.layers[i + 1]])

\* onChange of the ramp text field of the k-th layer
EditRampText(k, value) == AppStep(updateLayer(app.layers, k, ValueOrSpace(value)))

\* onChange of the Char Ramp select of the k-th layer
SelectRampPreset(k, val) ==
  IF val # "Custom" /\ val \in DOMAIN RAMP_PRESETS /\ RAMP_PRESETS[val] # ""
  THEN AppStep(updateLayer(app.layers, k, RAMP_PRESETS[val]))
  ELSE AppStep(app.layers)

\* loadPreset of a built-in preset
loadPreset(name) ==
  AppStep([k \in 1..Len(BUILT_IN_PRESETS[name]) |-> [ramp |-> BUILT_IN_PRESETS[name][k]]])

AppNext ==
  \/ addLayer
  \/ \E name \in DOMAIN BUILT_IN_PRESETS : loadPreset(name)
  \/ \E k \in 1..MaxLayers :
       /\ app.pass = 1 /\ k <= Len(app.layers)
       /\ \/ duplicateLayer(k)
          \/ removeLayer(k)
          \/ \E value \in TextEdits : EditRampText(k, value)
          \/ \E val \in SelectValues : SelectRampPreset(k, val)

SpecApp == AppInit /\ [][AppNext]_vars

\* every layer of the list has a ramp of at least one glyph
RampsNonEmpty ==
  app.pass = 1 => \A k \in 1..Len(app.layers) : app.layers[k].ramp # ""

\* C18: after any sequence of control-surface operations on layers (the
\* initial default preset, addLayer, duplicateLayer, updateLayer by the ramp
\* text field and the ramp select, loadPreset of a built-in preset) every
\* layer's ramp is non-empty: a ramp edited to the empty string becomes a
\* single space.
C18_RampNeverEmpty ==
  /\ []RampsNonEmpty
  /\ [][\A k \in 1..MaxLayers :
          (app.pass = 1 /\ k <= Len(app.layers) /\ EditRampText(k, ""))
             => app'.layers[k].ramp = " "]_vars

\* a layer added to a loaded preset had its ramp field emptied: the list has
\* a layer with the one-space ramp next to a layer of the preset
C18_Witness ==
  /\ app.pass = 1 /\ app.ops = MaxOps /\ Len(app.layers) = 2
  /\ app.layers[1].ramp = " "
  /\ app.layers[2].ramp = BUILT_IN_PRESETS["Sketch"][2]

-----------------------------------------------------------------------------
(* The per-sample chain of the tone adjuster against its reference: the    *)
(* reference is computed on one sample, a fraction n / d, step by step.    *)

QInt(k) == [n |-> IFromInt(k), d |-> <<1>>]

QAdd(a, b) == [n |-> IAdd(IMulNat(a.n, b.d), IMulNat(b.n, a.d)), d |-> NatMul(a.d, b.d)]

QSub(a, b) == [n |-> ISub(IMulNat(a.n, b.d), IMulNat(b.n, a.d)), d |-> NatMul(a.d, b.d)]

QMul(a, b) == [n |-> IMul(a.n, b.n), d |-> NatMul(a.d, b.d)]

\* a / k for a whole k > 0
QOver(a, k) == [n |-> a.n, d |-> NatMulSmall(a.d, k)]

QCmp(a, b) == ICmp(IMulNat(a.n, b.d), IMulNat(b.n, a.d))

QMax(a, b) == IF QCmp(a, b) >= 0 THEN a ELSE b

QMin(a, b) == IF QCmp(a, b) <= 0 THEN a ELSE b

RECURSIVE QPow(_, _)
QPow(a, g) == IF g <= 1 THEN a ELSE QMul(a, QPow(a, g - 1))

\* the reference composition on the sample v: levels remap, brightness,
\* contrast about 128, clamp below at 0 then gamma, posterize, invert, clamp
ReferenceChain(v, s) ==
  LET levels   == QMul(QOver(QSub(v, QInt(s.blackPoint)),
                             Max(1, s.whitePoint - s.blackPoint)), QInt(255))
      bright   == QAdd(levels, QInt(s.brightness))
      contrast == QAdd(QOver(QMul(QSub(bright, QInt(128)), QInt(s.contrast)), 100),
                       QInt(128))
      gamma    == QMul(QInt(255),
                       QPow(QOver(QMax(QInt(0), contrast), 255), s.gamma \div 100))
      poster   == IF s.posterize >= 2
                  THEN LET scaled == QOver(QMul(gamma, QInt(s.posterize - 1)), 255)
                       IN  QOver(QInt(255 * RoundQuot(scaled.n, scaled.d)),
                                 s.posterize - 1)
                  ELSE gamma
      inverted == IF s.invert THEN QSub(QInt(255), poster) ELSE poster
  IN  QMax(QInt(0), QMin(QInt(255), inverted))

\* C19: for every sample and every settings value, the per-sample chain of
\* createAdjustedCanvas equals the reference composition in this order:
\* levels remap (v - blackPoint) / max(1, whitePoint - blackPoint) * 255, add
\* brightness, contrast about 128, clamp below at 0 then gamma, posterize
\* (only when posterize >= 2), invert (only when set), clamp to [0, 255]; a
\* white point <= black point uses a range of 1, and the output is always
\* within [0, 255].
C19_ChainIsReference ==
  ToneDone =>
    \A grey \in {tone.grey}, pre \in {tone.pre} :
      /\ Len(grey.n) = Len(pre.n)
      /\ \A i \in 1..Len(grey.n) :
           \E out \in {[n |-> grey.n[i], d |-> grey.d]} :
             /\ QCmp(out, ReferenceChain([n |-> pre.n[i], d |-> pre.d],
                                         tone.settings)) = 0
             /\ QCmp(out, QInt(0)) >= 0 /\ QCmp(out, QInt(255)) <= 0

\* the adjuster has run with every step of the chain in force and a white
\* point below the black point, and some sample came out strictly between 0
\* and 255, changed
C19_Witness ==
  /\ ToneDone
  /\ tone.settings.whitePoint <= tone.settings.blackPoint
  /\ tone.settings.invert /\ tone.settings.posterize >= 2
  /\ tone.settings.gamma # 100 /\ tone.settings.contrast # 100
  /\ tone.settings.brightness # 0
  /\ \E i \in 1..Len(tone.grey.n) :
       \E out \in {[n |-> tone.grey.n[i], d |-> tone.grey.d]} :
         /\ QCmp(out, QInt(0)) > 0 /\ QCmp(out, QInt(255)) < 0
         /\ QCmp(out, [n |-> tone.pre.n[i], d |-> tone.pre.d]) # 0

-----------------------------------------------------------------------------
(* The intensity the exporters look glyphs up with.                        *)

\* the layer's grid has a cell
CanvasGridFilled == CanvasDone /\ ~CanvasGridEmpty

\* C20: in each exporter, for a layer whose dithering mode is 'none', the
\* intensity used for the glyph lookup has been quantized with
\* levels = max(2, ramp length) and step = 255 / (levels - 1) as
\* round(v / step) * step, exactly as for the other four modes the Ditherer
\* is applied.
C20_NoneIsQuantized ==
  (CanvasGridFilled /\ render.layer.dithering = "none") =>
     \A used \in {render.used}, cut \in {render.cut} :
        FieldEq(used, applyDithering(cut, Len(cut.n), 1, "none",
                                     Len(render.layer.ramp)))

-----------------------------------------------------------------------------
(* The exporters against each other.                                       *)

\* both exporters ran on the layer, enabled, over the same grid
SameGridExported ==
  /\ render.pass = 1 /\ render.canvasDone /\ render.textDone
  /\ render.layer.enabled /\ ~render.text.raised
  /\ LayerCols(render.layer, render.outW) = render.text.cols
  /\ LayerRows(render.outH) = render.text.rows
  /\ render.text.cols > 0 /\ render.text.rows > 0

\* C21: for the same layer, the same adjusted field and the same grid
\* (cols, rows) the exporters select the same glyph, or no glyph, at every
\* cell: what renderAsciiText writes at a cell is what renderAsciiLayer draws
\* there, a space where it draws nothing.
C21_ExportersSelectSameGlyph ==
  SameGridExported =>
    \A cells \in {render.canvas.cells}, grid \in {render.text.grid} :
      /\ Len(cells) = Len(grid)
      /\ \A i \in 1..Len(cells) :
           grid[i] = IF cells[i] = NoGlyph THEN " " ELSE cells[i]

-----------------------------------------------------------------------------
(* The auto-optimizer's percentiles against their definition.              *)

\* the histogram the optimizer of the call reads
AutoHist ==
  IF auto.impl = "engine"
  THEN HistOfPixels(auto.image.px, EmptyHist, 1, Len(auto.image.px))
  ELSE LET grey == getGreyscale(auto.image)
       IN  HistOfGrey(grey, EmptyHist, 1, Len(grey.n))

\* the scan of the bins from..to for the first at which the cumulative
\* count, cum below from, reaches target
RECURSIVE FirstBinScan(_, _, _, _, _)
FirstBinScan(hist, target, from, to, cum) ==
  IF from = to
  THEN [found |-> cum + hist[from] >= target, bin |-> from, cum |-> cum + hist[from]]
  ELSE LET mid  == (from + to) \div 2
           half == FirstBinScan(hist, target, from, mid, cum)
       IN  IF half.found THEN half
           ELSE FirstBinScan(hist, target, mid + 1, to, half.cum)

\* the smallest bin whose cumulative count reaches target
FirstBinReaching(hist, target) == FirstBinScan(hist, target, 0, 255, 0).bin

\* C22: for every luminance histogram of N samples the optimizer's black
\* point is the smallest bin whose cumulative count reaches round(0.005 * N)
\* and its white point the smallest bin whose cumulative count reaches
\* round(0.995 * N), also when that bin is 0, and black point <= white point.
C22_PercentilesAreSmallestBins ==
  AutoDone =>
    \A hist \in {AutoHist}, pixels \in {Len(auto.image.px)} :
      \A pts \in {PercentilePoints(hist, pixels)} :
        /\ auto.result \in OptimizeFromHist(hist, pixels, auto.current)
        /\ pts.blackPoint = FirstBinReaching(hist, RoundDiv(5 * pixels, 1000))
        /\ pts.whitePoint = FirstBinReaching(hist, RoundDiv(995 * pixels, 1000))
        /\ pts.blackPoint <= pts.whitePoint

-----------------------------------------------------------------------------
(* The post-step of computeIntensity against its reference on one value.   *)

\* v * contrast / 100, 255 - v when inverted, 0 when below the threshold,
\* clamped to [0, 255]
ReferencePost(v, layer) ==
  LET scaled   == QOver(QMul(v, QInt(layer.contrast)), 100)
      inverted == IF layer.invert THEN QSub(QInt(255), scaled) ELSE scaled
      cut      == IF QCmp(inverted, QInt(layer.threshold)) < 0 THEN QInt(0)
                  ELSE inverted
  IN  QMax(QInt(0), QMin(QInt(255), cut))

\* C23: for each of the five intensity algorithms computeIntensity ends with
\* the shared post-step in this order: multiply by contrast / 100, invert
\* (255 - v) when layer.invert is set, set values below threshold to 0, clamp
\* to [0, 255]; hence every value of the returned field is within [0, 255]
\* and is either 0 or >= min(threshold, 255).
C23_SharedPostStep ==
  CanvasGridFilled =>
    \A raw \in {render.raw}, cut \in {render.cut} :
      /\ Len(raw.n) = Len(cut.n)
      /\ \A i \in 1..Len(cut.n) :
           \E out \in {[n |-> cut.n[i], d |-> cut.d]} :
             /\ QCmp(out, ReferencePost([n |-> raw.n[i], d |-> raw.d],
                                        render.layer)) = 0
             /\ QCmp(out, QInt(0)) >= 0 /\ QCmp(out, QInt(255)) <= 0
             /\ \/ QCmp(out, QInt(0)) = 0
                \/ QCmp(out, QInt(Min(render.layer.threshold, 255))) >= 0

\* an inverted layer with a contrast other than 100 and a cutoff was
\* rendered on the largest grid: one cell was cut to 0 from a value above 0,
\* another kept a value strictly between the threshold and 255
C23_Witness ==
  /\ CanvasGridFilled
  /\ render.layer.invert /\ render.layer.contrast # 100 /\ render.layer.threshold > 0
  /\ Len(render.cut.n) = MaxCols * MaxRows
  /\ \E i \in 1..Len(render.cut.n) :
       /\ render.cut.n[i] = IZero
       /\ ICmp(render.post.n[i], IZero) > 0
  /\ \E i \in 1..Len(render.cut.n) :
       \E out \in {[n |-> render.cut.n[i], d |-> render.cut.d]} :
         /\ QCmp(out, QInt(render.layer.threshold)) > 0
         /\ QCmp(out, QInt(255)) < 0

-----------------------------------------------------------------------------
(* The weights of one diffusion step (engine.ts 347-418), read off the      *)
(* buffer before and after the step.                                        *)

\* the weight the kernel gives to cell j (0-based) when cell i is quantized
RECURSIVE KernelWeightAt(_, _, _, _)
KernelWeightAt(kernel, w, i, j) ==
  IF kernel = << >> THEN 0
  ELSE LET t == Head(kernel)
       IN  (IF j = i + t[1] + t[2] * w THEN t[3] ELSE 0)
           + KernelWeightAt(Tail(kernel), w, i, j)

\* the sum of the weights of a kernel
RECURSIVE KernelTotal(_)
KernelTotal(kernel) ==
  IF kernel = << >> THEN 0 ELSE Head(kernel)[3] + KernelTotal(Tail(kernel))

\* the step from buffer S to buffer T quantized cell i (0-based) and handed
\* err * weight / divisor to every cell j, with err = old - new of cell i and k
\* the divisor (T's denominator is k times S's)
SharesAsKernel(S, T, kernel, k, w, i) ==
  LET err == ISub(IMulInt(S.n[i + 1], k), T.n[i + 1])
  IN  \A j \in 0..(Len(S.n) - 1) :
         j # i =>
           IMulInt(T.n[j + 1], k)
             = IAdd(IMulInt(S.n[j + 1], k * k),
                    IMulInt(err, KernelWeightAt(kernel, w, i, j)))

\* C24: quantizing a cell whose kernel neighbours all lie inside the field
\* adds err * weight / divisor to each neighbour with the weights of section
\* 4.5 (floyd-steinberg 7, 3, 5, 1 over 16; stucki twelve neighbours over 42;
\* atkinson six neighbours at 1/8 each), changes no other cell, changes no
\* cell earlier in raster order, and the weights total 16/16, 42/42 and 6/8.
C24_KernelWeights ==
  [][(DitherStep /\ dither.mode \in ErrorDiffusion
        /\ InteriorCell(dither.mode, dither.w, dither.h, dither.pos)) =>
       /\ SharesAsKernel(dither.S, dither'.S, KernelOf(dither.mode),
                         KernelDivisor(dither.mode), dither.w, dither.pos)
       /\ \A j \in 0..dither.pos - 1 :
             KernelWeightAt(KernelOf(dither.mode), dither.w, dither.pos, j) = 0
       /\ KernelTotal(KernelOf(dither.mode))
            = (IF dither.mode = "atkinson" THEN 6 ELSE KernelDivisor(dither.mode))
       /\ Len(KernelOf(dither.mode))
            = (CASE dither.mode = "floyd-steinberg" -> 4
                 [] dither.mode = "atkinson" -> 6
                 [] OTHER -> 12)]_vars

\* the cell quantized last was a stucki cell with all twelve neighbours inside
\* the field, its quantization error was not zero, and the cell diagonally
\* two below it received its share
C24_Witness ==
  /\ dither.pass >= 1 /\ dither.mode = "stucki" /\ dither.pos >= 1
  /\ InteriorCell("stucki", dither.w, dither.h, dither.pos - 1)
  /\ dither.errs[dither.pos] # IZero
  /\ dither.pos + 2 * dither.w + 2 <= Len(dither.S.n)

-----------------------------------------------------------------------------
(* boxBlur as a machine (engine.ts 287-315): BlurHorizontal is the loop     *)
(* that fills temp, BlurVertical the loop that fills result.                *)

MaxBlurW == 4

MaxBlurH == 3

MaxRadius == 5

BlurInit ==
  /\ dither = Idle /\ lut = Idle /\ render = Idle /\ comp = Idle /\ auto = Idle
  /\ cache = Idle /\ app = Idle
  /\ \E w \in 1..MaxBlurW, h \in 1..MaxBlurH, r \in 1..MaxRadius, seed \in InputSeeds :
       tone = [pass |-> 3, w |-> w, h |-> h, r |-> r,
               data |-> InputField(w, h, seed), temp |-> Idle, result |-> Idle]

BlurHorizontal ==
  /\ tone.pass = 3
  /\ tone' = [tone EXCEPT !.temp = BlurRows(tone.data, tone.w, tone.h, tone.r),
                          !.pass = 4]
  /\ UNCHANGED <<dither, lut, render, comp, auto, cache, app>>

BlurVertical ==
  /\ tone.pass = 4
  /\ tone' = [tone EXCEPT !.result = BlurCols(tone.temp, tone.w, tone.h, tone.r),
                          !.pass = 5]
  /\ UNCHANGED <<dither, lut, render, comp, auto, cache, app>>

BlurNext == BlurHorizontal \/ BlurVertical

SpecBlur == BlurInit /\ [][BlurNext]_vars

BlurDone == tone.pass = 5

\* the positions of a line of n samples within distance r of position x (0-based)
InWindow(n, r, x) == {p \in 0..(n - 1) : p >= x - r /\ p <= x + r}

\* out holds, at every cell, the mean of the samples of src that lie in bounds
\* within distance r of the cell along the x axis (horizontal) or the y axis
MeanOfWindow(src, out, w, h, r, horizontal) ==
  \A y \in 0..(h - 1), x \in 0..(w - 1) :
     LET win == IF horizontal THEN {y * w + p : p \in InWindow(w, r, x)}
                ELSE {p * w + x : p \in InWindow(h, r, y)}
         idx == CHOOSE f \in [1..Cardinality(win) -> win] :
                  \A a, b \in 1..Cardinality(win) : a # b => f[a] # f[b]
         sum == ISum([a \in 1..Cardinality(win) |-> src.n[idx[a] + 1]])
     IN  /\ Cardinality(win) >= 1
         /\ IMulNat(IMulInt(out.n[y * w + x + 1], Cardinality(win)), src.d)
              = IMulNat(sum, out.d)

\* C25: for every radius r >= 1, also r larger than the field, the horizontal
\* pass of boxBlur writes at each cell the mean of the in-bounds samples within
\* distance r along the row, the vertical pass the mean of the in-bounds
\* samples of the first pass within distance r along the column, the count of
\* a window is never 0, and a constant field is returned unchanged.
C25_BoxBlurIsWindowMean ==
  /\ tone.pass >= 4 =>
       MeanOfWindow(tone.data, tone.temp, tone.w, tone.h, tone.r, TRUE)
  /\ BlurDone =>
       /\ MeanOfWindow(tone.temp, tone.result, tone.w, tone.h, tone.r, FALSE)
       /\ (\A i \in 1..Len(tone.data.n) : tone.data.n[i] = tone.data.n[1]) =>
             FieldEq(tone.result, tone.data)

\* boxBlur has returned for a field of several rows and columns that is not
\* constant, with a radius larger than the field in both directions, and the
\* result differs from the input
C25_Witness ==
  /\ BlurDone
  /\ tone.w >= 2 /\ tone.h >= 2 /\ tone.r > tone.w /\ tone.r > tone.h
  /\ ~FieldEq(tone.result, tone.data)

-----------------------------------------------------------------------------
(* ditherFloydSteinberg with the storage of its buffer (engine.ts 347-366). *)
(* result is a Float32Array: every store rounds to the nearest value of 24  *)
(* significant bits, ties to even.  The arithmetic between two stores is in *)
(* doubles; for the fields below (samples that are multiples of 2^-18, six  *)
(* cells, steps 255 and 85) every double operation is exact, so the values  *)
(* are fractions n / d and only the stores round.                           *)

\* the exponent k with 2^k <= |q| < 2^(k+1), q # 0
F32Exp(q) ==
  CHOOSE k \in -40..9 :
    LET lo == IF k >= 0 THEN NatMul(q.d, Pow2Nat(k)) ELSE q.d
        a  == IF k >= 0 THEN q.n.m ELSE NatMul(q.n.m, Pow2Nat(-k))
    IN  NatCmp(a, lo) >= 0 /\ NatCmp(a, NatMulSmall(lo, 2)) < 0

\* the whole number nearest to n / d, ties to the even one
RoundHalfEven(n, d) ==
  LET fl   == IFloorDiv(n, d)
      rest == ISub(n, IMul(IFromInt(fl), IFromNat(d)))
      c    == NatCmp(NatMulSmall(rest.m, 2), d)
  IN  IF c > 0 \/ (c = 0 /\ fl % 2 = 1) THEN fl + 1 ELSE fl

\* Math.fround: the value a Float32Array element holds after q is stored
Fround(q) ==
  IF q.n.m = <<>> THEN QInt(0)
  ELSE LET s == F32Exp(q) - 23
           m == IF s >= 0 THEN RoundHalfEven(q.n, NatMul(q.d, Pow2Nat(s)))
                ELSE RoundHalfEven(IMulNat(q.n, Pow2Nat(-s)), q.d)
       IN  IF s >= 0 THEN [n |-> IMulNat(IFromInt(m), Pow2Nat(s)), d |-> <<1>>]
           ELSE [n |-> IFromInt(m), d |-> Pow2Nat(-s)]

\* if (ok) result[j] += err * wgt / 16, the sum stored as a float
Bump32(r, ok, j, err, wgt) ==
  IF ok THEN [r EXCEPT ![j + 1] = Fround(QAdd(@, QOver(QMul(err, QInt(wgt)), 16)))]
  ELSE r

\* one iteration of ditherFloydSteinberg's loops on the Float32Array r
FSCell32(r, w, h, levels, i) ==
  LET x   == i % w
      y   == i \div w
      old == r[i + 1]
      lev == QOver(QInt(255 * QuantLevel(old.n, old.d, levels)), levels - 1)
      err == QSub(old, lev)
      r0  == [r EXCEPT ![i + 1] = Fround(lev)]
      r1  == Bump32(r0, x + 1 < w, i + 1, err, 7)
      r2  == Bump32(r1, y + 1 < h /\ x > 0, i + w - 1, err, 3)
      r3  == Bump32(r2, y + 1 < h, i + w, err, 5)
  IN  Bump32(r3, y + 1 < h /\ x + 1 < w, i + w + 1, err, 1)

F32Levels == {2, 4}

\* samples in units of 2^-18: the float below 127.5 and floats about 71.7187
\* and 63.75, the errors of which add up to just under half a step
F32Fields ==
  {<<33423358, b, c, d, e, 0>> :
     b \in {18800626, 18800628, 18800630}, c \in {18800624, 18800626, 18800628},
     d \in {16711673, 16711674, 16711675}, e \in {0, 255 * 262144}}

F32Init ==
  /\ lut = Idle /\ tone = Idle /\ render = Idle /\ comp = Idle /\ auto = Idle
  /\ cache = Idle /\ app = Idle
  /\ \E f \in F32Fields, levels \in F32Levels :
       dither = [pass |-> 32, w |-> 3, h |-> 2, levels |-> levels,
                 input |-> [i \in 1..6 |-> Fround([n |-> IFromInt(f[i]), d |-> Pow2Nat(18)])],
                 result |-> [i \in 1..6 |-> Fround([n |-> IFromInt(f[i]), d |-> Pow2Nat(18)])],
                 pos |-> 0]

FSStep32 ==
  /\ dither.pass = 32
  /\ dither.pos < dither.w * dither.h
  /\ dither' = [dither EXCEPT
                  !.result = FSCell32(@, dither.w, dither.h, dither.levels, dither.pos),
                  !.pos = @ + 1]
  /\ UNCHANGED <<lut, tone, render, comp, auto, cache, app>>

F32Next == FSStep32

SpecDither32 == F32Init /\ [][F32Next]_vars

\* sample q is one of the levels k * 255 / (levels - 1), 0 <= k <= levels - 1
IsLevel(q, levels) ==
  \E k \in 0..(levels - 1) : QCmp(q, QOver(QInt(255 * k), levels - 1)) = 0

\* C26: for floyd-steinberg, atkinson, stucki and ordered dithering, every
\* levels >= 2 and every field with inputs in [0, 255], every quantized cell
\* holds one of the levels k * step with 0 <= k <= levels - 1, so no output is
\* below 0 or above 255.
C26_OutputsAreLevels ==
  /\ (dither.pass \in 1..MaxPasses /\ dither.mode # "none") =>
        \A j \in 1..dither.pos :
           IsLevel([n |-> dither.S.n[j], d |-> dither.S.d], dither.levels)
  /\ dither.pass = 32 =>
        \A j \in 1..dither.pos : IsLevel(dither.result[j], dither.levels)

-----------------------------------------------------------------------------
(* applyDithering of the command-line program (part_002 246-254) beside the *)
(* engine's (engine.ts 444-456), called on the same field.                  *)

\* part_002: switch (mode) with the cases floyd-steinberg, atkinson and
\* ordered, default: return intensity
cliApplyDithering(intensity, w, h, mode, rampLen) ==
  LET levels == Max(2, rampLen)
  IN  IF mode \in {"floyd-steinberg", "atkinson", "ordered"}
      THEN DitherScan(mode, DitherStart(mode, intensity, levels), intensity, w, h, levels, 0)
      ELSE [d |-> intensity.d, n |-> intensity.n]

MaxMirrorW == 3

MaxMirrorH == 2

MirrorRampLens == {1, 2, 10}

MirrorInit ==
  /\ lut = Idle /\ tone = Idle /\ render = Idle /\ comp = Idle /\ auto = Idle
  /\ cache = Idle /\ app = Idle
  /\ \E mode \in DitherModes, w \in 1..MaxMirrorW, h \in 1..MaxMirrorH,
        rampLen \in MirrorRampLens, seed \in InputSeeds :
       dither = [pass |-> 50, mode |-> mode, w |-> w, h |-> h, rampLen |-> rampLen,
                 input |-> InputField(w, h, seed), engine |-> Idle, cli |-> Idle]

\* both programs dither the field
MirrorApply ==
  /\ dither.pass = 50
  /\ dither' = [dither EXCEPT
                  !.engine = applyDithering(dither.input, dither.w, dither.h,
                                            dither.mode, dither.rampLen),
                  !.cli = cliApplyDithering(dither.input, dither.w, dither.h,
                                            dither.mode, dither.rampLen),
                  !.pass = 51]
  /\ UNCHANGED <<lut, tone, render, comp, auto, cache, app>>

MirrorNext == MirrorApply

SpecMirror == MirrorInit /\ [][MirrorNext]_vars

\* C27: for every dithering mode of the engine (none, floyd-steinberg,
\* atkinson, ordered, stucki) the applyDithering of the command-line program
\* returns the same field as the engine's applyDithering on the same field
\* and parameters.
C27_CliMirrorsEngine ==
  dither.pass = 51 => FieldEq(dither.cli, dither.engine)

-----------------------------------------------------------------------------
(* The webcam (App.tsx 219-259).  startWebcam is an async function: it runs *)
(* up to its first await (getUserMedia), resumes up to the second (play),   *)
(* and resumes to the end.  Invocation c creates stream c, video c and      *)
(* interval c.  0 stands for null in the three refs.                        *)

MaxStarts == 2

MaxStops == 2

MaxFrames == 2

Invocations == 1..MaxStarts

\* the body of stopWebcam on the refs and the browser's timers and streams
stopWebcamOn(a) ==
  [a EXCEPT !.intervals = @ \ {a.webcamInterval},
            !.live = IF a.webcamStream # 0 THEN @ \ {a.webcamStream} ELSE @,
            !.webcamStream = 0,
            !.webcamVideo = 0,
            !.webcamActive = FALSE]

WebcamInit ==
  /\ dither = Idle /\ lut = Idle /\ tone = Idle /\ render = Idle /\ comp = Idle
  /\ auto = Idle /\ cache = Idle
  /\ app = [pass |-> 2, pc |-> [c \in Invocations |-> "idle"],
            webcamInterval |-> 0, webcamStream |-> 0, webcamVideo |-> 0,
            webcamActive |-> FALSE, intervals |-> {}, live |-> {},
            loading |-> FALSE, image |-> 0, last |-> "none", stops |-> 0]

\* startWebcam is invoked: stopWebcam(), then await getUserMedia
StartWebcam(c) ==
  /\ app.pass = 2
  /\ app.pc[c] = "idle"
  /\ \A b \in 1..(c - 1) : app.pc[b] # "idle"
  /\ app' = [stopWebcamOn(app) EXCEPT !.pc[c] = "getUserMedia", !.last = "start"]
  /\ UNCHANGED <<dither, lut, tone, render, comp, auto, cache>>

\* getUserMedia resolves: the stream is kept in the ref, the video element is
\* created, await video.play()
MediaGranted(c) ==
  /\ app.pass = 2
  /\ app.pc[c] = "getUserMedia"
  /\ app' = [app EXCEPT !.live = @ \cup {c}, !.webcamStream = c, !.pc[c] = "play"]
  /\ UNCHANGED <<dither, lut, tone, render, comp, auto, cache>>

\* getUserMedia or play rejects: catch (e) { console.error(...) }
WebcamError(c) ==
  /\ app.pass = 2
  /\ app.pc[c] \in {"getUserMedia", "play"}
  /\ app' = [app EXCEPT !.pc[c] = "done"]
  /\ UNCHANGED <<dither, lut, tone, render, comp, auto, cache>>

\* play resolves: the video is kept in the ref, setWebcamActive(true), and the
\* capture interval is scheduled
VideoPlaying(c) ==
  /\ app.pass = 2
  /\ app.pc[c] = "play"
  /\ app' = [app EXCEPT !.webcamVideo = c, !.webcamActive = TRUE,
                        !.intervals = @ \cup {c}, !.webcamInterval = c,
                        !.pc[c] = "done"]
  /\ UNCHANGED <<dither, lut, tone, render, comp, auto, cache>>

\* the user stops the webcam
StopWebcam ==
  /\ app.pass = 2
  /\ app.stops < MaxStops
  /\ app' = [stopWebcamOn(app) EXCEPT !.last = "stop", !.stops = @ + 1]
  /\ UNCHANGED <<dither, lut, tone, render, comp, auto, cache>>

\* a scheduled interval fires: the frame is drawn and an Image starts loading
CaptureFrame(c) ==
  /\ app.pass = 2
  /\ c \in app.intervals
  /\ ~app.loading
  /\ app' = [app EXCEPT !.loading = TRUE]
  /\ UNCHANGED <<dither, lut, tone, render, comp, auto, cache>>

\* img.onload = () => setImage(img)
FrameLoaded ==
  /\ app.pass = 2
  /\ app.loading
  /\ app.image < MaxFrames
  /\ app' = [app EXCEPT !.loading = FALSE, !.image = @ + 1]
  /\ UNCHANGED <<dither, lut, tone, render, comp, auto, cache>>

WebcamNext ==
  \/ \E c \in Invocations : StartWebcam(c)
  \/ \E c \in Invocations : MediaGranted(c)
  \/ \E c \in Invocations : WebcamError(c)
  \/ \E c \in Invocations : VideoPlaying(c)
  \/ StopWebcam
  \/ \E c \in Invocations : CaptureFrame(c)
  \/ FrameLoaded

SpecWebcam == WebcamInit /\ [][WebcamNext]_vars

\* the last invocation was stopWebcam and no startWebcam is in flight
WebcamStopped ==
  /\ app.pass = 2 /\ app.last = "stop"
  /\ \A c \in Invocations : app.pc[c] \in {"idle", "done"}

\* C28: in every interleaving of startWebcam and stopWebcam, once the last
\* stopWebcam has run and no startWebcam is in flight, no capture interval is
\* scheduled, no stream is left un-stopped, and no webcam frame replaces the
\* image any more.
C28_StoppedMeansQuiet ==
  /\ [](WebcamStopped => (app.intervals = {} /\ app.live = {}))
  /\ [][WebcamStopped => app'.image = app.image]_vars

-----------------------------------------------------------------------------
(* The layer list and its events (App.tsx 261-264, 444-464, 588-608).  A    *)
(* layer is its id, ids are numbered in the order crypto.randomUUID()       *)
(* hands them out; Undefined is JavaScript's undefined as an entry of the   *)
(* array, Null the null of dragIdx.  Positions are 0-based as in the code.  *)

MaxEvents == 4

MaxListLen == 4

Undefined == 0

Null == -1

\* ls.at(i), 0-based
At(ls, i) == ls[i + 1]

\* ls.findIndex(l => l.id === id)
findIndex(ls, id) ==
  IF \E i \in 0..(Len(ls) - 1) : At(ls, i) = id
  THEN CHOOSE i \in 0..(Len(ls) - 1) :
         At(ls, i) = id /\ \A j \in 0..(i - 1) : At(ls, j) # id
  ELSE -1

\* const [moved] = copy.splice(at, 1): the array after the call and moved
SpliceOut(ls, at) ==
  IF at < Len(ls)
  THEN [rest |-> SubSeq(ls, 1, at) \o SubSeq(ls, at + 2, Len(ls)), moved |-> At(ls, at)]
  ELSE [rest |-> ls, moved |-> Undefined]

\* copy.splice(at, 0, x)
SpliceIn(ls, at, x) ==
  LET a == Min(at, Len(ls))
  IN  SubSeq(ls, 1, a) \o <<x>> \o SubSeq(ls, a + 1, Len(ls))

\* the updater of moveLayer
moveLayer(ls, id, dir) ==
  LET idx == findIndex(ls, id)
      ni  == idx + dir
  IN  IF idx < 0 \/ ni < 0 \/ ni >= Len(ls) THEN ls
      ELSE [ls EXCEPT ![idx + 1] = At(ls, ni), ![ni + 1] = At(ls, idx)]

\* the updater of onDrop on the card at position i
dropLayer(ls, dragIdx, i) ==
  LET out == SpliceOut(ls, dragIdx)
  IN  SpliceIn(out.rest, i, out.moved)

\* n layers with new ids from next on
FreshLayers(next, n) == [k \in 1..n |-> next + k - 1]

LayersInit ==
  /\ dither = Idle /\ lut = Idle /\ tone = Idle /\ render = Idle /\ comp = Idle
  /\ auto = Idle /\ cache = Idle
  /\ app = [pass |-> 3, layers |-> FreshLayers(1, Len(BUILT_IN_PRESETS["Default"])),
            next |-> Len(BUILT_IN_PRESETS["Default"]) + 1, dragIdx |-> Null,
            dragged |-> Null, prev |-> << >>, last |-> "none", events |-> 0]

\* a step of the list: the event, the new list, the new dragIdx and how many
\* ids were handed out.  The cards are rendered from the list (layer.id is
\* read for each), so no event is handled once an entry is undefined.
LayersEvent(name, ls, dragIdx, used) ==
  /\ app.pass = 3
  /\ app.events < MaxEvents
  /\ \A k \in 1..Len(app.layers) : app.layers[k] # Undefined
  /\ Len(ls) <= MaxListLen
  /\ app' = [app EXCEPT !.layers = ls, !.prev = app.layers, !.last = name,
                        !.dragIdx = dragIdx, !.next = @ + used, !.events = @ + 1,
                        !.dragged = IF name = "dragStart" THEN At(app.layers, dragIdx)
                                    ELSE @]
  /\ UNCHANGED <<dither, lut, tone, render, comp, auto, cache>>

LayerAdd == LayersEvent("addLayer", app.layers \o <<app.next>>, app.dragIdx, 1)

LayerDuplicate(i) ==
  /\ i < Len(app.layers)
  /\ LayersEvent("duplicateLayer", app.layers \o <<app.next>>, app.dragIdx, 1)

LayerRemove(i) ==
  /\ i < Len(app.layers)
  /\ LayersEvent("removeLayer",
                 SelectSeq(app.layers, LAMBDA l : l # At(app.layers, i)), app.dragIdx, 0)

LayerUpdate(i) ==
  /\ i < Len(app.layers)
  /\ LayersEvent("updateLayer",
                 [k \in 1..Len(app.layers) |-> app.layers[k]], app.dragIdx, 0)

LayerMove(i, dir) ==
  /\ i < Len(app.layers)
  /\ LayersEvent("moveLayer", moveLayer(app.layers, At(app.layers, i), dir),
                 app.dragIdx, 0)

LayerDragStart(i) ==
  /\ i < Len(app.layers)
  /\ LayersEvent("dragStart", app.layers, i, 0)

LayerDrop(i) ==
  /\ i < Len(app.layers)
  /\ LayersEvent("drop",
                 IF app.dragIdx # Null /\ app.dragIdx # i
                 THEN dropLayer(app.layers, app.dragIdx, i) ELSE app.layers,
                 Null, 0)

LayerDragEnd == LayersEvent("dragEnd", app.layers, Null, 0)

LayersLoadPreset(name) ==
  LayersEvent("loadPreset", FreshLayers(app.next, Len(BUILT_IN_PRESETS[name])),
              app.dragIdx, Len(BUILT_IN_PRESETS[name]))

Positions == 0..(MaxListLen - 1)

LayersNext ==
  \/ LayerAdd
  \/ \E i \in Positions : LayerDuplicate(i)
  \/ \E i \in Positions : LayerRemove(i)
  \/ \E i \in Positions : LayerUpdate(i)
  \/ \E i \in Positions, dir \in {-1, 1} : LayerMove(i, dir)
  \/ \E i \in Positions : LayerDragStart(i)
  \/ \E i \in Positions : LayerDrop(i)
  \/ LayerDragEnd
  \/ \E name \in DOMAIN BUILT_IN_PRESETS : LayersLoadPreset(name)

SpecLayers == LayersInit /\ [][LayersNext]_vars

\* every entry is a layer and no two entries have the same id
LayersWellFormed ==
  app.pass = 3 =>
    /\ \A k \in 1..Len(app.layers) : app.layers[k] # Undefined
    /\ \A j, k \in 1..Len(app.layers) : j # k => app.layers[j] # app.layers[k]

\* b is a permutation of a
IsPermutation(a, b) ==
  /\ Len(a) = Len(b)
  /\ \A x \in {a[k] : k \in 1..Len(a)} \cup {b[k] : k \in 1..Len(b)} :
        Cardinality({k \in 1..Len(a) : a[k] = x})
          = Cardinality({k \in 1..Len(b) : b[k] = x})

\* C29: after any sequence of layer-list events the list holds only layers
\* with pairwise distinct ids; moveLayer and a drop return a permutation of
\* the list they were applied to, moveLayer past either end returns the list
\* unchanged, and a drop moves no layer but the one whose drag was started.
C29_LayerListWellFormed ==
  /\ []LayersWellFormed
  /\ [][(app.pass = 3 /\ app'.last \in {"moveLayer", "drop"} /\ app'.events # app.events) =>
          /\ IsPermutation(app.layers, app'.layers)
          /\ (app'.last = "drop" /\ app.dragIdx # Null) =>
                SelectSeq(app'.layers, LAMBDA l : l # app.dragged)
                  = SelectSeq(app.layers, LAMBDA l : l # app.dragged)]_vars

-----------------------------------------------------------------------------
(* The debounced preview and the PNG export (App.tsx 284-302, 318-333).     *)
(* A value of (image, layers, settings) is numbered by version; a timer, an *)
(* animation-frame callback and an export timeout each hold the version     *)
(* their closure captured.  flat tells that the image is so wide that       *)
(* Math.round(previewW * aspect) is 0: compositeAll then draws a layer      *)
(* canvas of height 0, for which drawImage throws InvalidStateError.        *)

MaxChanges == 3

MaxExports == 2

PreviewInit ==
  /\ dither = Idle /\ lut = Idle /\ tone = Idle /\ render = Idle /\ comp = Idle
  /\ auto = Idle /\ cache = Idle
  /\ \E flat \in BOOLEAN :
       app = [pass |-> 4, flat |-> flat, version |-> 1, timers |-> {1},
              renderTimer |-> 1, frames |-> << >>, exports |-> << >>,
              rendering |-> FALSE, shown |-> 0, rendered |-> {}, cancelled |-> {},
              clicks |-> 0, saved |-> 0]

\* (image, layers, settings) changes and the effect runs: clearTimeout of the
\* timer in the ref, then setTimeout(..., 120)
PreviewChange ==
  /\ app.pass = 4
  /\ app.version < MaxChanges
  /\ app' = [app EXCEPT !.version = @ + 1,
                        !.timers = (@ \ {app.renderTimer}) \cup {app.version + 1},
                        !.renderTimer = app.version + 1,
                        !.cancelled = @ \cup (app.timers \cap {app.renderTimer})]
  /\ UNCHANGED <<dither, lut, tone, render, comp, auto, cache>>

\* the timer fires: setRendering(true); requestAnimationFrame(...)
PreviewTimer(t) ==
  /\ app.pass = 4
  /\ t \in app.timers
  /\ app' = [app EXCEPT !.timers = @ \ {t}, !.rendering = TRUE,
                        !.frames = Append(@, t)]
  /\ UNCHANGED <<dither, lut, tone, render, comp, auto, cache>>

\* the animation frame: compositeAll, the drawing on the preview canvas, and
\* setRendering(false) when no statement before it has thrown
PreviewFrame ==
  /\ app.pass = 4
  /\ app.frames # << >>
  /\ app' = [app EXCEPT !.frames = Tail(@),
                        !.rendered = @ \cup {Head(app.frames)},
                        !.shown = IF app.flat THEN @ ELSE Head(app.frames),
                        !.rendering = IF app.flat THEN @ ELSE FALSE]
  /\ UNCHANGED <<dither, lut, tone, render, comp, auto, cache>>

\* handleExport: setRendering(true); setTimeout(..., 50)
ExportClick ==
  /\ app.pass = 4
  /\ app.clicks < MaxExports
  /\ app' = [app EXCEPT !.clicks = @ + 1, !.rendering = TRUE,
                        !.exports = Append(@, app.version)]
  /\ UNCHANGED <<dither, lut, tone, render, comp, auto, cache>>

\* the export timeout: compositeAll, the download, setRendering(false)
ExportRun ==
  /\ app.pass = 4
  /\ app.exports # << >>
  /\ app' = [app EXCEPT !.exports = Tail(@),
                        !.saved = IF app.flat THEN @ ELSE Head(app.exports),
                        !.rendering = IF app.flat THEN @ ELSE FALSE]
  /\ UNCHANGED <<dither, lut, tone, render, comp, auto, cache>>

PreviewNext ==
  \/ PreviewChange
  \/ \E t \in 1..MaxChanges : PreviewTimer(t)
  \/ PreviewFrame
  \/ ExportClick
  \/ ExportRun

SpecPreview == PreviewInit /\ [][PreviewNext]_vars

\* timers, animation frames and timeouts of the page are run by the browser
SpecPreviewFair ==
  /\ SpecPreview
  /\ WF_vars(\E t \in 1..MaxChanges : PreviewTimer(t))
  /\ WF_vars(PreviewFrame)
  /\ WF_vars(ExportRun)

\* C30: at most one preview timer is pending at any time; a timer that was
\* pending when the next change arrived never renders; once changes stop, the
\* last preview render to complete is the one of the latest (image, layers,
\* settings) and the rendering flag returns to false and stays there, also
\* with PNG exports in between.
C30_DebouncedPreview ==
  /\ [](app.pass = 4 => Cardinality(app.timers) <= 1)
  /\ [](app.pass = 4 => app.rendered \cap app.cancelled = {})
  /\ <>[](app.pass = 4 => (app.shown = app.version /\ ~app.rendering))

=============================================================================
